---- MODULE Spec2Model ----
(***************************************************************************)
(* Model of the row validation and partitioning engine of                  *)
(* src/src/datacleaning.py (class DataCleaner).                            *)
(*                                                                         *)
(* Cell texts are TLA+ strings; a character is a string of length 1.       *)
(* A Python value that may be None (or a dict key that may be absent) is   *)
(* a tuple: <<>> for None / absent, <<v>> for the value v.                 *)
(***************************************************************************)
EXTENDS Integers, Sequences, FiniteSets, TLC

VARIABLES
    fn,             \* validator call: the static method last called ("" before any call)
    arg,            \* validator call: its first argument
    field,          \* validator call: field_name of is_valid_numeric ("" otherwise)
    ret,            \* validator call: what the call returned or raised
    pc,             \* clean_dataset: "idle", "loop", "done" (returned) or "raised"
    data,           \* clean_dataset: the argument of the call
    idx,            \* clean_dataset: rows of data consumed by the for loop
    last,           \* clean_dataset: <<>> or <<the tuple clean_row returned last>>
    included_data,  \* DataCleaner.included_data
    excluded_data,  \* DataCleaner.excluded_data
    calls,          \* the caller of clean_dataset: the calls that returned, each
                    \* with its argument and the two lists it received
    run_pc,         \* process_and_clean_sheet_data: "idle", "fetch", "failed" (it
                    \* raised before a batch), "batch", "cleaning" or "complete"
    runs,           \* process_and_clean_sheet_data: calls made so far
    raw_data,       \* the data rows of the sheet, raw_data[1:] of the code
    store_original, \* parameter of the run
    batch_size,     \* parameter of the run
    batch_num,      \* batches of the run that were inserted
    original_batch, \* the rows of the batch for the original table
    uuids,          \* uuid4 values drawn so far
    included_table, \* table clients_2025_<identifier>_included
    excluded_table, \* table clients_2025_<identifier>_excluded
    original_table, \* table clients_2025_<identifier>_original
    engine,         \* the AnalyticsEngine: included_data, excluded_data, original_count
    ib_pc,          \* _insert_batch: "idle", "batch" (in the retry loop), "rows"
                    \* (in the row loop) or "returned"
    ib_batch,       \* _insert_batch: the argument batch
    retry,          \* _insert_batch: the loop variable of the retry loop
    ib_row,         \* _insert_batch: rows of the batch the row loop has consumed
    rows_inserted,  \* _insert_batch
    rows_failed,    \* _insert_batch
    ib_ret,         \* _insert_batch: <<>> or <<(rows_inserted, rows_failed)>> returned
    ib_table,       \* the table _insert_batch inserts into
    ib_log,         \* the insert requests _insert_batch has made, with their outcome
    attempt,        \* get_sheet_data: the loop variable of the retry loop
    run_error,      \* the run: <<>> or <<the exception it raised>>
    run_ret,        \* the run: <<>> or <<the tuple it returned>>
    total_included, \* the run: records counted as included so far
    total_excluded, \* the run: records counted as excluded so far
    write_ret,      \* the run: the append operations called, with what they returned
    dropped,        \* row_ids of the records of the run that no insert landed
    created,        \* the tables of the sheet that exist
    response,       \* clean_data: what the route answered, once it has
    workers         \* the requests that run process_and_clean_sheet_data at the
                    \* same time: for each its position, its batch_num and the
                    \* two lists of its batch

pipelineVars == <<run_pc, runs, raw_data, store_original, batch_size, batch_num,
                  original_batch, uuids, included_table, excluded_table,
                  original_table>>
engineVars == <<engine>>
insertVars == <<ib_pc, ib_batch, retry, ib_row, rows_inserted, rows_failed, ib_ret,
                ib_table, ib_log>>
runVars == <<attempt, run_error, run_ret, total_included, total_excluded, write_ret,
             dropped, created>>
workerVars == <<workers>>
routeVars == <<response>>
storeVars == <<insertVars, runVars, workerVars, routeVars>>

vars == <<fn, arg, field, ret, pc, data, idx, last, included_data, excluded_data,
          calls, pipelineVars, engineVars, storeVars>>

(***************************************************************************)
(* Bounds of the model.                                                    *)
(***************************************************************************)
MaxNameLen == 3     \* is_valid_name is called on every text of NameChars up to this length
MaxNumLen == 3      \* is_valid_numeric is called on every text of NumChars up to this length
MaxRows == 2        \* clean_dataset is called on every list of at most this many rows
MaxCalls == 3       \* one DataCleaner is followed through at most this many calls
MaxRuns == 2        \* process_and_clean_sheet_data is called at most this many times
MaxIncluded == 3    \* AnalyticsEngine gets every list of at most this many included records
MaxExcluded == 2    \* and every list of at most this many excluded records
MaxDropped == 1     \* the inserts of the runs drop at most this many records
MaxReports == 2     \* get_comprehensive_analytics is called at most this often on an engine

(***************************************************************************)
(* Characters and Python's str methods.                                    *)
(***************************************************************************)
Char(s, i) == SubSeq(s, i, i)

UpperLetters == "ABCDEFGHIJKLMNOPQRSTUVWXYZ"
LowerLetters == "abcdefghijklmnopqrstuvwxyz"

\* the characters [A-Za-z] of the pattern
AsciiLetters ==
    {Char(UpperLetters, i) : i \in 1..26} \cup {Char(LowerLetters, i) : i \in 1..26}

\* the characters str.strip() removes and the pattern's \s matches
Whitespace == {" ", "\t", "\n"}

Digits == {"0", "1", "2", "3", "4", "5", "6", "7", "8", "9"}

DigitVal(c) ==
    CASE c = "0" -> 0 [] c = "1" -> 1 [] c = "2" -> 2 [] c = "3" -> 3 [] c = "4" -> 4
      [] c = "5" -> 5 [] c = "6" -> 6 [] c = "7" -> 7 [] c = "8" -> 8 [] c = "9" -> 9

RECURSIVE lstrip(_)
lstrip(s) ==
    IF Len(s) > 0 /\ Char(s, 1) \in Whitespace THEN lstrip(Tail(s)) ELSE s

RECURSIVE rstrip(_)
rstrip(s) ==
    IF Len(s) > 0 /\ Char(s, Len(s)) \in Whitespace
    THEN rstrip(SubSeq(s, 1, Len(s) - 1))
    ELSE s

\* str.strip()
strip(s) == rstrip(lstrip(s))

\* every character of s is in the set cs
AllIn(s, cs) == \A i \in 1..Len(s) : Char(s, i) \in cs

\* s without its characters that are in the set cs
RECURSIVE Without(_, _)
Without(s, cs) ==
    IF Len(s) = 0 THEN ""
    ELSE (IF Char(s, 1) \in cs THEN "" ELSE Char(s, 1)) \o Without(Tail(s), cs)

\* the index of the first character of s that is in cs, 0 when there is none
FirstIn(s, cs) ==
    IF \E i \in 1..Len(s) : Char(s, i) \in cs
    THEN CHOOSE i \in 1..Len(s) :
            /\ Char(s, i) \in cs
            /\ \A j \in 1..(i - 1) : Char(s, j) \notin cs
    ELSE 0

\* str.lower(), on one character
lowerChar(c) ==
    IF \E i \in 1..26 : Char(UpperLetters, i) = c
    THEN Char(LowerLetters, CHOOSE i \in 1..26 : Char(UpperLetters, i) = c)
    ELSE c

RECURSIVE lower(_)
lower(s) == IF Len(s) = 0 THEN "" ELSE lowerChar(Char(s, 1)) \o lower(Tail(s))

\* the number a text of decimal digits denotes (0 for the empty text)
RECURSIVE ToNat(_)
ToNat(s) ==
    IF Len(s) = 0 THEN 0
    ELSE 10 * ToNat(SubSeq(s, 1, Len(s) - 1)) + DigitVal(Char(s, Len(s)))

RECURSIVE Pow10(_)
Pow10(n) == IF n = 0 THEN 1 ELSE 10 * Pow10(n - 1)

(***************************************************************************)
(* float(text) and int(float): datacleaning.py line 81.                    *)
(*                                                                         *)
(* float() accepts, after an optional sign, "inf", "infinity" and "nan" in *)
(* any case, or a decimal: digits with at most one point and at least one  *)
(* digit, then an optional exponent e[sign]digits; an underscore may stand *)
(* between two digits.  Anything else raises ValueError.                   *)
(* A decimal is kept as its digits and the position of the point: the      *)
(* value is 0.DIGITS * 10^point.                                           *)
(***************************************************************************)
\* sys.float_info.max_10_exp: a decimal of more than this many + 1 integer
\* digits is beyond the largest binary64 and float() gives inf
FloatMax10Exp == 308

FloatValueError == [kind |-> "ValueError", neg |-> FALSE, digits |-> "", point |-> 0]
FloatNan == [kind |-> "nan", neg |-> FALSE, digits |-> "", point |-> 0]
FloatInf(neg) == [kind |-> "inf", neg |-> neg, digits |-> "", point |-> 0]

\* the decimal grammar, on a text without sign and underscores
ParseDecimal(neg, b) ==
    LET k == FirstIn(b, {"e", "E"})
        mant == IF k = 0 THEN b ELSE SubSeq(b, 1, k - 1)
        expo == IF k = 0 THEN "" ELSE SubSeq(b, k + 1, Len(b))
        esigned == Len(expo) > 0 /\ Char(expo, 1) \in {"+", "-"}
        edigits == IF esigned THEN Tail(expo) ELSE expo
        dot == FirstIn(mant, {"."})
        intpart == IF dot = 0 THEN mant ELSE SubSeq(mant, 1, dot - 1)
        frac == IF dot = 0 THEN "" ELSE SubSeq(mant, dot + 1, Len(mant))
        ok == /\ AllIn(intpart, Digits)
              /\ AllIn(frac, Digits)
              /\ Len(intpart) + Len(frac) >= 1
              /\ k # 0 => (Len(edigits) >= 1 /\ AllIn(edigits, Digits))
    IN  IF ~ok THEN FloatValueError
        ELSE LET e == IF esigned /\ Char(expo, 1) = "-"
                      THEN 0 - ToNat(edigits) ELSE ToNat(edigits)
                 ds == intpart \o frac
                 nz == FirstIn(ds, Digits \ {"0"})
             IN  IF nz # 0 /\ Len(intpart) + e - (nz - 1) > FloatMax10Exp + 1
                 THEN FloatInf(neg)
                 ELSE [kind |-> "finite", neg |-> neg, digits |-> ds,
                       point |-> Len(intpart) + e]

\* float(s)
float(s) ==
    LET t0 == strip(s)
        underscoresOk ==
            \A i \in 1..Len(t0) : Char(t0, i) = "_" =>
                /\ i > 1 /\ i < Len(t0)
                /\ Char(t0, i - 1) \in Digits
                /\ Char(t0, i + 1) \in Digits
        t == Without(t0, {"_"})
        signed == Len(t) > 0 /\ Char(t, 1) \in {"+", "-"}
        neg == signed /\ Char(t, 1) = "-"
        body == IF signed THEN Tail(t) ELSE t
    IN  IF ~underscoresOk THEN FloatValueError
        ELSE IF lower(body) \in {"inf", "infinity"} THEN FloatInf(neg)
        ELSE IF lower(body) = "nan" THEN FloatNan
        ELSE ParseDecimal(neg, body)

\* int(f) of a finite float: the integer part, truncated toward zero
int(f) ==
    LET n == Len(f.digits)
        mag == IF f.point <= 0 \/ AllIn(f.digits, {"0"}) THEN 0
               ELSE IF f.point >= n THEN ToNat(f.digits) * Pow10(f.point - n)
               ELSE ToNat(SubSeq(f.digits, 1, f.point))
    IN  IF f.neg THEN 0 - mag ELSE mag

(***************************************************************************)
(* The validators: DataCleaner.is_valid_name ... is_valid_year.            *)
(* A call returns a record; exc is "" unless the call raised.              *)
(***************************************************************************)
Validity(valid, error) == [exc |-> "", valid |-> valid, error |-> error]

Parsed(valid, error, value) ==
    [exc |-> "", valid |-> valid, error |-> error, value |-> value]

Raised(exc) == [exc |-> exc, valid |-> FALSE, error |-> "", value |-> 0]

\* re.match(r'^[A-Za-z\s]+$', name): one or more characters, each a letter or
\* whitespace, up to the end of the text ($ also matches before a final
\* newline, which is whitespace and so within the class anyway)
re_match_name(name) ==
    Len(name) >= 1 /\ AllIn(name, AsciiLetters \cup Whitespace)

is_valid_name(name) ==
    IF name = "" \/ strip(name) = "" THEN Validity(FALSE, "missing name")
    ELSE LET stripped == strip(name)
         IN  IF Len(stripped) < 2 THEN Validity(FALSE, "name too short")
             ELSE IF ~re_match_name(stripped)
                  THEN Validity(FALSE, "special character in name")
                  ELSE Validity(TRUE, "")

is_valid_numeric(value, field_name) ==
    IF value = "" \/ strip(value) = ""
    THEN Parsed(FALSE, "missing " \o field_name, 0)
    ELSE LET f == float(strip(value))
         IN  CASE f.kind = "finite" -> Parsed(TRUE, "", int(f))
               \* float() raised ValueError, or int(nan) did: both are caught
               [] f.kind \in {"ValueError", "nan"} ->
                    Parsed(FALSE, "invalid " \o field_name \o " (not numeric)", 0)
               \* int(inf) raises OverflowError, which the except clause
               \* (ValueError, TypeError) does not catch
               [] f.kind = "inf" -> Raised("OverflowError")

\* mutant: the upper limit of the day off by one
is_valid_day_upto_32(day) ==
    IF day < 1 \/ day > 32 THEN Validity(FALSE, "invalid day (not 1-31)")
    ELSE Validity(TRUE, "")

is_valid_day(day) ==
    IF day < 1 \/ day > 31 THEN Validity(FALSE, "invalid day (not 1-31)")
    ELSE Validity(TRUE, "")

is_valid_month(month) ==
    IF month < 1 \/ month > 12 THEN Validity(FALSE, "invalid month (not 1-12)")
    ELSE Validity(TRUE, "")

\* mutant: 1940 itself rejected
is_valid_year_after_1940(year) ==
    IF year <= 1940 THEN Validity(FALSE, "birth_year older than 1940")
    ELSE Validity(TRUE, "")

is_valid_year(year) ==
    IF year < 1940 THEN Validity(FALSE, "birth_year older than 1940")
    ELSE Validity(TRUE, "")

(***************************************************************************)
(* DataCleaner.clean_row.                                                  *)
(***************************************************************************)
\* row.get(key, '') or '': the cell's text, '' when it is None or absent
Get(row, key) == IF row[key] = <<>> THEN "" ELSE row[key][1]

\* mutant: the original text kept trimmed
TextOrNone_trimmed(text) == IF strip(text) = "" THEN <<>> ELSE <<strip(text)>>

\* str(text) if text else None
TextOrNone(text) == IF text = "" THEN <<>> ELSE <<text>>

\* "# Validate name": the reason appended to errors, cleaned['name']
name_step(name) ==
    LET n == is_valid_name(name)
    IN  IF ~n.valid
        THEN [exc |-> "", errors |-> <<n.error>>, value |-> <<>>]
        ELSE [exc |-> "", errors |-> <<>>, value |-> <<strip(name)>>]

\* "# Validate day / month / year": the range check runs only on a text that
\* parsed; the reason appended to errors, cleaned[key] when both checks passed
\* (range is what the range check returns on parsed.value)
numeric_step(parsed, range) ==
    IF parsed.exc # "" THEN [exc |-> parsed.exc, errors |-> <<>>, value |-> <<>>]
    ELSE IF ~parsed.valid
    THEN [exc |-> "", errors |-> <<parsed.error>>, value |-> <<>>]
    ELSE IF ~range.valid
    THEN [exc |-> "", errors |-> <<range.error>>, value |-> <<>>]
    ELSE [exc |-> "", errors |-> <<>>, value |-> <<parsed.value>>]

day_step(birth_day) ==
    LET parsed == is_valid_numeric(birth_day, "birth_day")
    IN  numeric_step(parsed, is_valid_day(parsed.value))

month_step(birth_month) ==
    LET parsed == is_valid_numeric(birth_month, "birth_month")
    IN  numeric_step(parsed, is_valid_month(parsed.value))

year_step(birth_year) ==
    LET parsed == is_valid_numeric(birth_year, "birth_year")
    IN  numeric_step(parsed, is_valid_year(parsed.value))

\* what clean_row returns, from the four steps in the order they run: the
\* first exception leaves the method; errors holds the reasons in the order
\* they were appended
clean_row_result(row, n, d, m, y) ==
    IF d.exc # "" THEN [exc |-> d.exc]
    ELSE IF m.exc # "" THEN [exc |-> m.exc]
    ELSE IF y.exc # "" THEN [exc |-> y.exc]
    ELSE [exc |-> "",
          is_valid |-> Len(n.errors \o d.errors \o m.errors \o y.errors) = 0,
          cleaned |->
            [row_id |-> row.row_id,
             original_row_number |-> row.original_row_number,
             name |-> n.value,
             birth_day |-> d.value,
             birth_month |-> m.value,
             birth_year |-> y.value,
             original_name |-> TextOrNone(Get(row, "firstname")),
             original_birth_day |-> TextOrNone(Get(row, "birthday")),
             original_birth_month |-> TextOrNone(Get(row, "birthmonth")),
             original_birth_year |-> TextOrNone(Get(row, "birthyear"))],
          errors |-> n.errors \o d.errors \o m.errors \o y.errors]

\* mutant: validation stops at the first field that fails
clean_row_first_failure(row) ==
    LET n == name_step(Get(row, "firstname"))
        d == day_step(Get(row, "birthday"))
        none == [exc |-> "", errors |-> <<>>, value |-> <<>>]
    IN  IF Len(n.errors) > 0 THEN clean_row_result(row, n, none, none, none)
        ELSE IF d.exc = "" /\ Len(d.errors) > 0 THEN clean_row_result(row, n, d, none, none)
        ELSE clean_row_result(row, n, d,
                month_step(Get(row, "birthmonth")), year_step(Get(row, "birthyear")))

clean_row(row) ==
    clean_row_result(row,
        name_step(Get(row, "firstname")),
        day_step(Get(row, "birthday")),
        month_step(Get(row, "birthmonth")),
        year_step(Get(row, "birthyear")))

(***************************************************************************)
(* DataCleaner.clean_dataset.                                              *)
(***************************************************************************)
\* mutant: only the first reason is reported
join_first(sep, errors) == IF Len(errors) = 0 THEN "" ELSE errors[1]

\* '; '.join(errors)
RECURSIVE join(_, _)
join(sep, errors) ==
    IF Len(errors) = 0 THEN ""
    ELSE IF Len(errors) = 1 THEN errors[1]
    ELSE errors[1] \o sep \o join(sep, Tail(errors))

\* mutant: the included rows renumbered by their position in the output
included_row_renumbered(cleaned_row) ==
    [row_id |-> cleaned_row.row_id,
     original_row_number |-> Len(included_data) + 1,
     name |-> cleaned_row.name[1],
     birth_day |-> cleaned_row.birth_day[1],
     birth_month |-> cleaned_row.birth_month[1],
     birth_year |-> cleaned_row.birth_year[1]]

included_row(cleaned_row) ==
    [row_id |-> cleaned_row.row_id,
     original_row_number |-> cleaned_row.original_row_number,
     name |-> cleaned_row.name[1],
     birth_day |-> cleaned_row.birth_day[1],
     birth_month |-> cleaned_row.birth_month[1],
     birth_year |-> cleaned_row.birth_year[1]]

excluded_row(cleaned_row, errors) ==
    [row_id |-> cleaned_row.row_id,
     original_row_number |-> cleaned_row.original_row_number,
     original_name |-> cleaned_row.original_name,
     original_birth_day |-> cleaned_row.original_birth_day,
     original_birth_month |-> cleaned_row.original_birth_month,
     original_birth_year |-> cleaned_row.original_birth_year,
     exclusion_reason |-> join("; ", errors)]

(***************************************************************************)
(* The inputs the model calls the code with.                               *)
(***************************************************************************)
RECURSIVE Texts(_, _)
Texts(chars, n) ==
    IF n = 0 THEN {""}
    ELSE LET shorter == Texts(chars, n - 1)
         IN  shorter \cup {s \o c : s \in shorter, c \in chars}

NameChars == {"A", "b", " ", "\t", "'", "1"}
NameTexts ==
    Texts(NameChars, MaxNameLen)
        \cup {"O'Brien", "Anna Maria", "Jo", "J", "   ", " Ann ", "Anna\nMaria"}

NumChars == {"0", "1", "5", ".", "-", " ", "x", "_"}
NumTexts ==
    Texts(NumChars, MaxNumLen)
        \cup {"15", "15.0", "fifteen", "15.9", "-0.5", "+5", "1e1", "15e-1",
              "1940", "1939", "2e3", "99999", "1_000",
              "inf", "-inf", "Infinity", "nan", "1e999", "0e999"}

FieldNames == {"birth_day", "birth_month", "birth_year"}

DayValues == (0 - 2)..33
MonthValues == (0 - 2)..14
YearValues == {0 - 1, 0, 1, 31, 1938, 1939, 1940, 1941, 2025, 99999, 1000000000}

\* rows of cells (firstname, birthday, birthmonth, birthyear): rows that pass,
\* rows failing in one, several or all fields with every reason code, cells
\* that are None, empty or blank, and float texts without a finite value
Cells(n, d, m, y) ==
    [firstname |-> n, birthday |-> d, birthmonth |-> m, birthyear |-> y]

CellRows ==
    {Cells(<<" Ann ">>, <<"15.0">>, <<" 12">>, <<"1940">>),
     Cells(<<"A\tB">>, <<"31 ">>, <<"1">>, <<"99999">>),
     Cells(<<"Jo">>, <<"1_5">>, <<"1.9">>, <<"2e3">>),
     Cells(<<>>, <<"1">>, <<"12">>, <<"2e3">>),
     Cells(<<" Ann ">>, <<"15.0">>, <<" 12">>, <<"">>),
     Cells(<<"Jo">>, <<"15">>, <<"x">>, <<"1940">>),
     Cells(<<"Bob">>, <<"0">>, <<"1.9">>, <<"1941">>),
     Cells(<<"Bob">>, <<"nan">>, <<"12">>, <<"1940">>),
     Cells(<<"J">>, <<"32">>, <<"x">>, <<>>),
     Cells(<<"O'B">>, <<>>, <<"13">>, <<"1939">>),
     Cells(<<"  ">>, <<" ">>, <<"0">>, <<"y">>),
     Cells(<<"">>, <<"-5">>, <<>>, <<"1939.9">>),
     Cells(<<"Bob">>, <<"32">>, <<"12">>, <<"1940">>),
     Cells(<<"Bob">>, <<"1">>, <<"1">>, <<"1939">>),
     Cells(<<"Bob">>, <<"inf">>, <<"1">>, <<"1940">>),
     Cells(<<"Bob">>, <<"1">>, <<"1e999">>, <<"1940">>),
     Cells(<<"J">>, <<"x">>, <<"0">>, <<"-Infinity">>)}

\* row_id is a uuid4 text, fresh for every row; original_row_number is the
\* row's index in the sheet
RowIds == <<"id-c", "id-a", "id-d", "id-b", "id-e">>
BatchStarts == {1, 6}

RECURSIVE CellLists(_)
CellLists(n) ==
    IF n = 0 THEN {<<>>}
    ELSE LET shorter == CellLists(n - 1)
         IN  shorter \cup {Append(l, c) : l \in {x \in shorter : Len(x) = n - 1},
                                          c \in CellRows}

WithIds(cells, start) ==
    [i \in 1..Len(cells) |->
        [row_id |-> RowIds[i],
         original_row_number |-> start + i - 1,
         firstname |-> cells[i].firstname,
         birthday |-> cells[i].birthday,
         birthmonth |-> cells[i].birthmonth,
         birthyear |-> cells[i].birthyear]]

Datasets == {WithIds(l, s) : l \in CellLists(MaxRows), s \in BatchStarts}

(***************************************************************************)
(* Init: no validator was called; a DataCleaner was constructed.           *)
(***************************************************************************)
Init ==
    /\ fn = ""
    /\ arg = <<>>
    /\ field = ""
    /\ ret = <<>>
    /\ pc = "idle"
    /\ data = <<>>
    /\ idx = 0
    /\ last = <<>>
    /\ included_data = <<>>
    /\ excluded_data = <<>>
    /\ calls = <<>>
    /\ run_pc = "idle"
    /\ runs = 0
    /\ raw_data = <<>>
    /\ store_original = TRUE
    /\ batch_size = 1
    /\ batch_num = 0
    /\ original_batch = <<>>
    /\ uuids = 0
    /\ included_table = {}
    /\ excluded_table = {}
    /\ original_table = {}
    /\ engine = [included_data |-> <<>>, excluded_data |-> <<>>, original_count |-> 0]
    /\ ib_pc = "idle"
    /\ ib_batch = <<>>
    /\ retry = 0
    /\ ib_row = 0
    /\ rows_inserted = 0
    /\ rows_failed = 0
    /\ ib_ret = <<>>
    /\ ib_table = {}
    /\ ib_log = <<>>
    /\ attempt = 0
    /\ run_error = <<>>
    /\ run_ret = <<>>
    /\ total_included = 0
    /\ total_excluded = 0
    /\ write_ret = {}
    /\ dropped = {}
    /\ created = {}
    /\ response = <<>>
    /\ workers = [w \in {1, 2} |->
                    [pc |-> "idle", batch_num |-> 0, included_data |-> <<>>,
                     excluded_data |-> <<>>, appended |-> {}]]

cleanerVars == <<pc, data, idx, last, included_data, excluded_data>>
callVars == <<fn, arg, field, ret>>
callerVars == <<calls>>

(***************************************************************************)
(* Calls of the validators (static methods).                               *)
(***************************************************************************)
call_is_valid_name ==
    /\ fn = ""
    /\ \E name \in NameTexts :
        /\ fn' = "is_valid_name"
        /\ arg' = <<name>>
        /\ field' = ""
        /\ ret' = <<is_valid_name(name)>>
    /\ UNCHANGED <<cleanerVars, callerVars, pipelineVars, engineVars, storeVars>>

call_is_valid_numeric ==
    /\ fn = ""
    /\ \E value \in NumTexts, field_name \in FieldNames :
        /\ fn' = "is_valid_numeric"
        /\ arg' = <<value>>
        /\ field' = field_name
        /\ ret' = <<is_valid_numeric(value, field_name)>>
    /\ UNCHANGED <<cleanerVars, callerVars, pipelineVars, engineVars, storeVars>>

call_is_valid_day ==
    /\ fn = ""
    /\ \E day \in DayValues :
        /\ fn' = "is_valid_day"
        /\ arg' = <<day>>
        /\ field' = ""
        /\ ret' = <<is_valid_day(day)>>
    /\ UNCHANGED <<cleanerVars, callerVars, pipelineVars, engineVars, storeVars>>

call_is_valid_month ==
    /\ fn = ""
    /\ \E month \in MonthValues :
        /\ fn' = "is_valid_month"
        /\ arg' = <<month>>
        /\ field' = ""
        /\ ret' = <<is_valid_month(month)>>
    /\ UNCHANGED <<cleanerVars, callerVars, pipelineVars, engineVars, storeVars>>

call_is_valid_year ==
    /\ fn = ""
    /\ \E year \in YearValues :
        /\ fn' = "is_valid_year"
        /\ arg' = <<year>>
        /\ field' = ""
        /\ ret' = <<is_valid_year(year)>>
    /\ UNCHANGED <<cleanerVars, callerVars, pipelineVars, engineVars, storeVars>>

NextValidator ==
    \/ call_is_valid_name
    \/ call_is_valid_numeric
    \/ call_is_valid_day
    \/ call_is_valid_month
    \/ call_is_valid_year

SpecValidator == Init /\ [][NextValidator]_vars

(***************************************************************************)
(* clean_dataset(data): the call, one step per iteration of the for loop,  *)
(* and the return.  An exception of clean_row leaves the loop and the      *)
(* call; the lists keep what was appended before.                          *)
(***************************************************************************)
\* a clean_dataset that appends to the lists the DataCleaner already holds
clean_dataset_enter_keeping(rows) ==
    /\ data' = rows
    /\ UNCHANGED <<included_data, excluded_data>>
    /\ idx' = 0
    /\ last' = <<>>
    /\ pc' = "loop"

\* entering clean_dataset(rows): the two lists are rebound to new empty lists
clean_dataset_enter(rows) ==
    /\ data' = rows
    /\ included_data' = <<>>
    /\ excluded_data' = <<>>
    /\ idx' = 0
    /\ last' = <<>>
    /\ pc' = "loop"

clean_dataset_call ==
    /\ pc = "idle"
    /\ \E rows \in Datasets : clean_dataset_enter(rows)
    /\ UNCHANGED <<callVars, callerVars, pipelineVars, engineVars, storeVars>>

\* an iteration that puts an included row first in the list
loop_body_prepending(r) ==
    IF r.exc # ""
    THEN /\ pc' = "raised"
         /\ UNCHANGED <<idx, last, included_data, excluded_data>>
    ELSE /\ pc' = "loop"
         /\ idx' = idx + 1
         /\ last' = <<r>>
         /\ IF r.is_valid
            THEN /\ included_data' = <<included_row(r.cleaned)>> \o included_data
                 /\ UNCHANGED excluded_data
            ELSE /\ excluded_data' =
                        Append(excluded_data, excluded_row(r.cleaned, r.errors))
                 /\ UNCHANGED included_data

\* one iteration of "for idx, row in enumerate(data)", r being what
\* clean_row(row) returned or raised
loop_body(r) ==
    IF r.exc # ""
    THEN /\ pc' = "raised"
         /\ UNCHANGED <<idx, last, included_data, excluded_data>>
    ELSE /\ pc' = "loop"
         /\ idx' = idx + 1
         /\ last' = <<r>>
         /\ IF r.is_valid
            THEN /\ included_data' = Append(included_data, included_row(r.cleaned))
                 /\ UNCHANGED excluded_data
            ELSE /\ excluded_data' =
                        Append(excluded_data, excluded_row(r.cleaned, r.errors))
                 /\ UNCHANGED included_data

clean_dataset_row ==
    /\ pc = "loop"
    /\ idx < Len(data)
    /\ loop_body(clean_row(data[idx + 1]))
    /\ UNCHANGED <<data, callVars, callerVars, pipelineVars, engineVars, storeVars>>

clean_dataset_return ==
    /\ pc = "loop"
    /\ idx = Len(data)
    /\ pc' = "done"
    /\ calls' = Append(calls, [data |-> data,
                               included |-> included_data,
                               excluded |-> excluded_data])
    /\ UNCHANGED <<data, idx, last, included_data, excluded_data, callVars,
                   pipelineVars, engineVars, storeVars>>

Next ==
    \/ clean_dataset_call
    \/ clean_dataset_row
    \/ clean_dataset_return

Spec == Init /\ [][Next]_vars

(***************************************************************************)
(* One caller that calls clean_dataset several times, as the batch loop of *)
(* process_and_clean_sheet_data does: on a sheet, then on consecutive      *)
(* parts of it, with the DataCleaner it has or with a new one.             *)
(***************************************************************************)
RECURSIVE RowLists(_, _)
RowLists(rows, n) ==
    IF n = 0 THEN {<<>>}
    ELSE LET shorter == RowLists(rows, n - 1)
         IN  shorter \cup {Append(l, c) : l \in {x \in shorter : Len(x) = n - 1},
                                          c \in rows}

\* two rows that pass, one that fails and one whose birthday has no integer
BatchRows ==
    {Cells(<<" Ann ">>, <<"15.0">>, <<" 12">>, <<"1940">>),
     Cells(<<"Jo">>, <<"1_5">>, <<"1.9">>, <<"2e3">>),
     Cells(<<"Jo">>, <<"15">>, <<"x">>, <<"1940">>),
     Cells(<<"Bob">>, <<"inf">>, <<"1">>, <<"1940">>)}

Sheets == {WithIds(l, 1) : l \in RowLists(BatchRows, MaxRows)}

\* raw_data[batch_start:batch_end] for every batch_start <= batch_end
Segments(rows) ==
    {<<>>} \cup UNION {{SubSeq(rows, a, b) : b \in a..Len(rows)} : a \in 1..Len(rows)}

clean_dataset_first ==
    /\ pc = "idle"
    /\ \E rows \in Sheets : clean_dataset_enter(rows)
    /\ UNCHANGED <<callVars, callerVars, pipelineVars, engineVars, storeVars>>

\* the next call on the DataCleaner of the call before
clean_dataset_again ==
    /\ pc = "done"
    /\ Len(calls) < MaxCalls
    /\ \E rows \in Segments(calls[1].data) : clean_dataset_enter(rows)
    /\ UNCHANGED <<callVars, callerVars, pipelineVars, engineVars, storeVars>>

\* cleaner = DataCleaner(): the next call is on a new instance
DataCleaner_init ==
    /\ pc = "done"
    /\ included_data' = <<>>
    /\ excluded_data' = <<>>
    /\ UNCHANGED <<pc, data, idx, last, callVars, callerVars, pipelineVars, engineVars, storeVars>>

NextCleaner ==
    \/ clean_dataset_first
    \/ clean_dataset_again
    \/ DataCleaner_init
    \/ clean_dataset_row
    \/ clean_dataset_return

SpecCleaner == Init /\ [][NextCleaner]_vars

(***************************************************************************)
(* process_and_clean_sheet_data(sheet_key, batch_size, store_original) of  *)
(* src/app.py, called again and again for one sheet: the fetch and the     *)
(* clearing of the tables, then for every batch the parsing with new       *)
(* row_ids, the call of clean_dataset and the inserts, then the return.    *)
(* A record of a batch may fail to land in its table.  The route            *)
(* /api/clean_data, which reads the tables back and answers with the       *)
(* report, follows the analytics engine below.                             *)
(***************************************************************************)
\* rows of the sheet, each a list of cell texts; a row may lack its last cells
RawRows ==
    {<<" Ann ", "15.0", " 12", "1940">>,
     <<"Jo", "1_5", "1.9", "2e3">>,
     <<"Jo", "15", "x">>,
     <<"Bob", "inf", "1", "1940">>}

RawSheets == RowLists(RawRows, MaxRows)
BatchSizes == 1..MaxRows

\* str(uuid.uuid4()): the n-th value drawn differs from every value drawn before
uuid4(n) == "uuid-" \o ToString(n)

\* row_data[i] if len(row_data) > i else '' (i counted from 1 here)
CellAt(row_data, i) == IF Len(row_data) >= i THEN row_data[i] ELSE ""

parsed_row(row_data, row_id, original_row_number) ==
    [row_id |-> row_id,
     original_row_number |-> original_row_number,
     firstname |-> <<CellAt(row_data, 1)>>,
     birthday |-> <<CellAt(row_data, 2)>>,
     birthmonth |-> <<CellAt(row_data, 3)>>,
     birthyear |-> <<CellAt(row_data, 4)>>]

total_rows == Len(raw_data)
num_batches == (total_rows + batch_size - 1) \div batch_size
batch_start == batch_num * batch_size + 1
\* the last index of the batch: batch_end - 1 of the code
batch_last == IF batch_start + batch_size - 1 < total_rows
              THEN batch_start + batch_size - 1 ELSE total_rows

batch_with_ids ==
    [i \in 1..(batch_last - batch_start + 1) |->
        parsed_row(raw_data[batch_start + i - 1], uuid4(uuids + i), batch_start + i - 1)]

\* the call: the parameters, no call of clean_dataset made yet, and
\* get_sheet_data is entered
process_call ==
    /\ \/ run_pc \in {"idle", "failed", "complete", "responded"}
       \/ run_pc = "cleaning" /\ pc = "raised"
    /\ runs < MaxRuns
    /\ runs' = runs + 1
    /\ \E store \in BOOLEAN, size \in BatchSizes :
        /\ store_original' = store
        /\ batch_size' = size
    /\ run_pc' = "fetch"
    /\ attempt' = 0
    /\ run_error' = <<>>
    /\ run_ret' = <<>>
    /\ calls' = <<>>
    /\ engine' = [included_data |-> <<>>, excluded_data |-> <<>>, original_count |-> 0]
    /\ response' = <<>>
    /\ UNCHANGED <<raw_data, batch_num, original_batch, uuids, included_table,
                   excluded_table, original_table, total_included, total_excluded,
                   write_ret, dropped, created>>
    /\ UNCHANGED <<cleanerVars, callVars, insertVars, workerVars>>

get_sheet_data_max_retries == 3    \* max_retries = 3

\* one round of the retry loop of get_sheet_data in which the request
\* raises: the next round, or from the last round the exception, which
\* process_and_clean_sheet_data lets through
get_sheet_data_raises ==
    /\ run_pc = "fetch"
    /\ attempt < get_sheet_data_max_retries
    /\ IF attempt < get_sheet_data_max_retries - 1
       THEN /\ attempt' = attempt + 1
            /\ UNCHANGED <<run_pc, run_error>>
       ELSE /\ run_pc' = "failed"
            /\ run_error' = <<"HttpError">>
            /\ UNCHANGED attempt
    /\ UNCHANGED <<runs, raw_data, store_original, batch_size, batch_num,
                   original_batch, uuids, included_table, excluded_table,
                   original_table, run_ret, total_included, total_excluded,
                   write_ret, dropped, created>>
    /\ UNCHANGED <<cleanerVars, callVars, callerVars, engineVars, insertVars, workerVars, routeVars>>

\* a sheet is never found to be without data
no_data_never(rows) == FALSE

\* not raw_data or len(raw_data) < 2, on the rows after the header
no_data_found(rows) == Len(rows) = 0

\* a delete that leaves the table as it is
delete_neq_nothing(table, row_id) == table

\* table.delete().neq('row_id', row_id).execute(): the rows with another
\* row_id go
delete_neq(table, row_id) == {r \in table : r.row_id = row_id}

\* a round in which the request returns the values of the sheet, the sheet
\* as it was or without a data row: "No data found in sheet" unless there
\* is a data row; then both partition tables are emptied, the original
\* table only when store_original
process_start ==
    /\ run_pc = "fetch"
    /\ attempt < get_sheet_data_max_retries
    /\ \E rows \in (IF runs = 1 THEN RawSheets ELSE {raw_data, <<>>}) :
        /\ raw_data' = rows
        /\ IF no_data_found(rows)
           THEN /\ run_pc' = "failed"
                /\ run_error' = <<"ValueError: No data found in sheet">>
                /\ UNCHANGED <<batch_num, included_table, excluded_table,
                               original_table, total_included, total_excluded,
                               write_ret, dropped, created>>
           ELSE /\ run_pc' = "batch"
                /\ created' = created \cup {"included", "excluded"}
                                \cup (IF store_original THEN {"original"} ELSE {})
                /\ batch_num' = 0
                /\ included_table' = delete_neq(included_table, "00000000-0000-0000-0000-000000000000")
                /\ excluded_table' = delete_neq(excluded_table, "00000000-0000-0000-0000-000000000000")
                /\ original_table' =
                        IF store_original
                        THEN delete_neq(original_table, "00000000-0000-0000-0000-000000000000")
                        ELSE original_table
                /\ total_included' = 0
                /\ total_excluded' = 0
                /\ write_ret' = {}
                /\ dropped' = {}
                /\ UNCHANGED run_error
    /\ UNCHANGED <<runs, store_original, batch_size, original_batch, uuids, attempt,
                   run_ret>>
    /\ UNCHANGED <<cleanerVars, callVars, callerVars, engineVars, insertVars, workerVars, routeVars>>

\* one batch up to the call cleaner.clean_dataset(batch_with_ids) on a new
\* DataCleaner
process_batch ==
    /\ run_pc = "batch"
    /\ batch_num < num_batches
    /\ original_batch' = IF store_original THEN batch_with_ids ELSE <<>>
    /\ uuids' = uuids + Len(batch_with_ids)
    /\ clean_dataset_enter(batch_with_ids)
    /\ run_pc' = "cleaning"
    /\ UNCHANGED <<runs, raw_data, store_original, batch_size, batch_num,
                   included_table, excluded_table, original_table,
                   callVars, callerVars, engineVars, storeVars>>

\* the records of a list that the inserts of an append operation land: all
\* of them, or all but some that _insert_batch counts in rows_failed
landing(rows, lost) == {rows[i] : i \in DOMAIN rows} \ lost

\* the append operations the executor is given: none for an empty list
submitted ==
    (IF Len(included_data) > 0 THEN {"append_included_data"} ELSE {})
        \cup (IF Len(excluded_data) > 0 THEN {"append_excluded_data"} ELSE {})
        \cup (IF store_original /\ Len(original_batch) > 0
              THEN {"append_original_data"} ELSE {})

\* the inserts of the batch, after clean_dataset returned: the append
\* operations return True whatever _insert_batch counted, and the totals
\* grow by the lengths of the lists
process_insert ==
    /\ run_pc = "cleaning"
    /\ pc = "done"
    /\ \E lost \in SUBSET (landing(included_data, {}) \cup landing(excluded_data, {})) :
        /\ Cardinality(dropped) + Cardinality(lost) <= MaxDropped
        /\ included_table' = included_table \cup landing(included_data, lost)
        /\ excluded_table' = excluded_table \cup landing(excluded_data, lost)
        /\ dropped' = dropped \cup {r.row_id : r \in lost}
    /\ original_table' =
            IF store_original
            THEN original_table \cup {original_batch[i] : i \in DOMAIN original_batch}
            ELSE original_table
    /\ write_ret' = write_ret \cup {[operation |-> o, returned |-> TRUE] : o \in submitted}
    /\ total_included' = total_included + Len(included_data)
    /\ total_excluded' = total_excluded + Len(excluded_data)
    /\ batch_num' = batch_num + 1
    /\ run_pc' = "batch"
    /\ UNCHANGED <<runs, raw_data, store_original, batch_size, original_batch, uuids,
                   attempt, run_error, run_ret, created>>
    /\ UNCHANGED <<cleanerVars, callVars, callerVars, engineVars, insertVars, workerVars, routeVars>>

process_return ==
    /\ run_pc = "batch"
    /\ batch_num = num_batches
    /\ run_pc' = "complete"
    /\ run_ret' = <<[total_rows |-> total_rows,
                     total_included |-> total_included,
                     total_excluded |-> total_excluded]>>
    /\ UNCHANGED <<runs, raw_data, store_original, batch_size, batch_num,
                   original_batch, uuids, included_table, excluded_table,
                   original_table, attempt, run_error, total_included,
                   total_excluded, write_ret, dropped, created>>
    /\ UNCHANGED <<cleanerVars, callVars, callerVars, engineVars, insertVars, workerVars, routeVars>>

(***************************************************************************)
(* Vocabulary of the properties.                                           *)
(***************************************************************************)
\* the index of the first occurrence of sep in s, 0 when there is none
Find(s, sep) ==
    LET at(i) == SubSeq(s, i, i + Len(sep) - 1) = sep
        last_start == Len(s) - Len(sep) + 1
    IN  IF \E i \in 1..last_start : at(i)
        THEN CHOOSE i \in 1..last_start : at(i) /\ \A j \in 1..(i - 1) : ~at(j)
        ELSE 0

\* str.split(sep)
RECURSIVE split(_, _)
split(s, sep) ==
    LET k == Find(s, sep)
    IN  IF k = 0 THEN <<s>>
        ELSE <<SubSeq(s, 1, k - 1)>> \o split(SubSeq(s, k + Len(sep), Len(s)), sep)

Range(f) == {f[i] : i \in DOMAIN f}

\* the input row a record was made from, found by its row_id
RowOf(rec) == data[CHOOSE i \in 1..Len(data) : data[i].row_id = rec.row_id]

\* the call has ended, by a return or by an exception
Ended == pc \in {"done", "raised"}

NameCodes == {"missing name", "name too short", "special character in name"}
DayCodes == {"missing birth_day", "invalid birth_day (not numeric)", "invalid day (not 1-31)"}
MonthCodes ==
    {"missing birth_month", "invalid birth_month (not numeric)", "invalid month (not 1-12)"}
YearCodes ==
    {"missing birth_year", "invalid birth_year (not numeric)", "birth_year older than 1940"}

\* the field (1 name, 2 day, 3 month, 4 year) a reason code is about
FieldOfCode(code) ==
    CASE code \in NameCodes -> 1
      [] code \in DayCodes -> 2
      [] code \in MonthCodes -> 3
      [] code \in YearCodes -> 4
      [] OTHER -> 0

\* the reason codes of one field validated on its own
NameReasons(text) ==
    LET n == is_valid_name(text) IN IF n.valid THEN {} ELSE {n.error}

\* (p is what the numeric parse returns, range what the range check returns
\* on the parsed value)
NumericReasons(p, range) ==
    IF p.exc # "" THEN {}
    ELSE IF ~p.valid THEN {p.error}
    ELSE IF ~range.valid THEN {range.error}
    ELSE {}

DayReasons(text) ==
    NumericReasons(is_valid_numeric(text, "birth_day"),
                   is_valid_day(is_valid_numeric(text, "birth_day").value))

MonthReasons(text) ==
    NumericReasons(is_valid_numeric(text, "birth_month"),
                   is_valid_month(is_valid_numeric(text, "birth_month").value))

YearReasons(text) ==
    NumericReasons(is_valid_numeric(text, "birth_year"),
                   is_valid_year(is_valid_numeric(text, "birth_year").value))

IndependentReasons(row) ==
    NameReasons(Get(row, "firstname"))
        \cup DayReasons(Get(row, "birthday"))
        \cup MonthReasons(Get(row, "birthmonth"))
        \cup YearReasons(Get(row, "birthyear"))

(***************************************************************************)
(* C1.  For every input list of rows, clean_dataset returns included and   *)
(* excluded lists whose lengths add up to the length of the input, and     *)
(* the row_id of every input row is in exactly one of the two lists.       *)
(* Stated for every call that has ended; a call that ends by an exception  *)
(* returns no lists and leaves rows in neither.                            *)
(***************************************************************************)
InIncluded(id) == \E k \in 1..Len(included_data) : included_data[k].row_id = id
InExcluded(id) == \E k \in 1..Len(excluded_data) : excluded_data[k].row_id = id

C1_PartitionTotal ==
    Ended =>
        /\ pc = "done"
        /\ Len(included_data) + Len(excluded_data) = Len(data)
        /\ \A i \in 1..Len(data) :
            InIncluded(data[i].row_id) # InExcluded(data[i].row_id)

(***************************************************************************)
(* C2.  Every excluded record has a non-empty exclusion_reason that holds  *)
(* exactly the reason codes which validating each of the four raw fields   *)
(* of its row on its own gives: none missing, none added.                  *)
(***************************************************************************)
C2_ReasonCompleteness ==
    \A k \in 1..Len(excluded_data) :
        LET rec == excluded_data[k]
        IN  /\ rec.exclusion_reason # ""
            /\ Range(split(rec.exclusion_reason, "; ")) # {}
            /\ Range(split(rec.exclusion_reason, "; ")) = IndependentReasons(RowOf(rec))

C2_Witness ==
    /\ pc = "done"
    /\ \E k \in 1..Len(excluded_data) :
        excluded_data[k].exclusion_reason =
            "name too short; invalid day (not 1-31); invalid birth_month (not numeric); missing birth_year"
    /\ \E k \in 1..Len(excluded_data) :
        excluded_data[k].exclusion_reason = "birth_year older than 1940"

(***************************************************************************)
(* C3.  Every included record has its four value fields, with birth_day in *)
(* 1..31, birth_month in 1..12, birth_year >= 1940 and name the trimmed    *)
(* raw name; the cells of its row are all present, parse to a finite       *)
(* number and are in range.                                                *)
(***************************************************************************)
\* the cell is there, is not blank, and its text denotes a finite number
\* whose integer part is v
ParsesTo(cell, v) ==
    /\ cell # <<>>
    /\ strip(cell[1]) # ""
    /\ float(cell[1]).kind = "finite"
    /\ int(float(cell[1])) = v

C3_IncludedValid ==
    \A k \in 1..Len(included_data) :
        LET rec == included_data[k]
            row == RowOf(rec)
        IN  /\ DOMAIN rec = {"row_id", "original_row_number", "name",
                             "birth_day", "birth_month", "birth_year"}
            /\ rec.birth_day \in 1..31
            /\ rec.birth_month \in 1..12
            /\ rec.birth_year >= 1940
            /\ row.firstname # <<>>
            /\ rec.name = strip(row.firstname[1])
            /\ Len(rec.name) >= 2
            /\ ParsesTo(row.birthday, rec.birth_day)
            /\ ParsesTo(row.birthmonth, rec.birth_month)
            /\ ParsesTo(row.birthyear, rec.birth_year)

C3_Witness ==
    /\ pc = "done"
    /\ Len(excluded_data) >= 1
    /\ \E k \in 1..Len(included_data) :
        /\ included_data[k].name = "Ann"
        /\ included_data[k].birth_day = 15
        /\ included_data[k].birth_month = 12
        /\ included_data[k].birth_year = 1940
        /\ RowOf(included_data[k]).firstname = <<" Ann ">>
        /\ RowOf(included_data[k]).birthday = <<"15.0">>

(***************************************************************************)
(* C4.  Whatever text the cells hold, clean_row and clean_dataset never    *)
(* raise: an invalid field gives an exclusion reason on an excluded        *)
(* record.                                                                 *)
(***************************************************************************)
C4_NeverRaises == pc # "raised"

(***************************************************************************)
(* C5.  clean_row checks all four fields even when an earlier one failed:  *)
(* the reasons it returns hold at most one reason per field, in the order  *)
(* name, day, month, year, one for every field that fails; a field whose   *)
(* text does not parse has its parse reason and no range reason.  The      *)
(* excluded record's exclusion_reason is these reasons joined with "; ".   *)
(***************************************************************************)
\* the field of the row fails validation
FieldFails(row, f) ==
    CASE f = 1 -> NameReasons(Get(row, "firstname")) # {}
      [] f = 2 -> DayReasons(Get(row, "birthday")) # {}
      [] f = 3 -> MonthReasons(Get(row, "birthmonth")) # {}
      [] f = 4 -> YearReasons(Get(row, "birthyear")) # {}

\* the text of the cell parses to a finite number
Parses(text) == strip(text) # "" /\ float(text).kind = "finite"

RangeCodes ==
    {"invalid day (not 1-31)", "invalid month (not 1-12)", "birth_year older than 1940"}

C5_ReasonsPerField ==
    (idx >= 1 /\ last # <<>>) =>
        LET errors == last[1].errors
            row == data[idx]
        IN  /\ \A i, j \in 1..Len(errors) :
                i < j => FieldOfCode(errors[i]) < FieldOfCode(errors[j])
            /\ \A f \in 1..4 :
                FieldFails(row, f) <=> \E i \in 1..Len(errors) : FieldOfCode(errors[i]) = f
            /\ \A i \in 1..Len(errors) :
                /\ (FieldOfCode(errors[i]) = 2 /\ ~Parses(Get(row, "birthday")))
                        => errors[i] \notin RangeCodes
                /\ (FieldOfCode(errors[i]) = 3 /\ ~Parses(Get(row, "birthmonth")))
                        => errors[i] \notin RangeCodes
                /\ (FieldOfCode(errors[i]) = 4 /\ ~Parses(Get(row, "birthyear")))
                        => errors[i] \notin RangeCodes
            /\ last[1].is_valid <=> errors = <<>>
            /\ ~last[1].is_valid =>
                split(excluded_data[Len(excluded_data)].exclusion_reason, "; ") = errors

C5_Witness ==
    /\ idx >= 1
    /\ last # <<>>
    /\ last[1].errors = <<"missing name", "missing birth_day",
                          "invalid month (not 1-12)", "invalid birth_year (not numeric)">>
    /\ ~Parses(Get(data[idx], "birthday"))
    /\ excluded_data[Len(excluded_data)].exclusion_reason =
            "missing name; missing birth_day; invalid month (not 1-12); invalid birth_year (not numeric)"

(***************************************************************************)
(* C6.  is_valid_name accepts a raw name exactly when its trimmed form has *)
(* length >= 2 and consists only of ASCII letters and the space character; *)
(* otherwise it returns the first reason that applies: "missing name"      *)
(* (trimmed empty), "name too short" (trimmed length < 2), "special        *)
(* character in name" (any other character present).                       *)
(***************************************************************************)
NameRule(raw) ==
    LET trimmed == strip(raw)
    IN  IF trimmed = "" THEN Validity(FALSE, "missing name")
        ELSE IF Len(trimmed) < 2 THEN Validity(FALSE, "name too short")
        ELSE IF ~AllIn(trimmed, AsciiLetters \cup {" "})
             THEN Validity(FALSE, "special character in name")
             ELSE Validity(TRUE, "")

C6_NameRule == fn = "is_valid_name" => ret[1] = NameRule(arg[1])

(***************************************************************************)
(* C7.  is_valid_numeric returns "missing {field_name}" when the trimmed   *)
(* text is empty, "invalid {field_name} (not numeric)" when the text is    *)
(* not a decimal integer or float text, and otherwise succeeds with the    *)
(* value truncated toward zero, so "15" and "15.0" both give 15.           *)
(***************************************************************************)
\* a text [sign]digits[.digits] with at least one digit before the point
Unsigned(t) == IF Len(t) > 0 /\ Char(t, 1) \in {"+", "-"} THEN Tail(t) ELSE t

IntegerPart(t) ==
    IF FirstIn(Unsigned(t), {"."}) = 0 THEN Unsigned(t)
    ELSE SubSeq(Unsigned(t), 1, FirstIn(Unsigned(t), {"."}) - 1)

FractionPart(t) ==
    IF FirstIn(Unsigned(t), {"."}) = 0 THEN ""
    ELSE SubSeq(Unsigned(t), FirstIn(Unsigned(t), {"."}) + 1, Len(Unsigned(t)))

IsPlainDecimal(t) ==
    /\ Len(IntegerPart(t)) >= 1
    /\ AllIn(IntegerPart(t), Digits)
    /\ AllIn(FractionPart(t), Digits)

Truncated(t) ==
    IF Char(t, 1) = "-" THEN 0 - ToNat(IntegerPart(t)) ELSE ToNat(IntegerPart(t))

C7_NumericParse ==
    fn = "is_valid_numeric" =>
        LET r == ret[1]
            trimmed == strip(arg[1])
        IN  /\ r.exc = ""
            /\ trimmed = "" => r = Parsed(FALSE, "missing " \o field, 0)
            /\ trimmed # "" =>
                \/ r.valid /\ r.error = ""
                \/ r = Parsed(FALSE, "invalid " \o field \o " (not numeric)", 0)
            /\ IsPlainDecimal(trimmed) => r = Parsed(TRUE, "", Truncated(trimmed))
            /\ arg[1] \in {"15", "15.0"} => r = Parsed(TRUE, "", 15)
            /\ arg[1] = "fifteen" =>
                r = Parsed(FALSE, "invalid " \o field \o " (not numeric)", 0)

(***************************************************************************)
(* C8.  The range checks accept exactly day in [1,31], month in [1,12] and *)
(* year >= 1940 with no upper limit: day 0 and 32 fail with "invalid day   *)
(* (not 1-31)", month 0 and 13 with "invalid month (not 1-12)", year 1939  *)
(* with "birth_year older than 1940"; day 1 and 31, month 1 and 12, year   *)
(* 1940 and every larger year pass.                                        *)
(***************************************************************************)
C8_RangeBoundaries ==
    /\ fn = "is_valid_day" =>
        ret[1] = IF arg[1] >= 1 /\ arg[1] <= 31
                 THEN Validity(TRUE, "")
                 ELSE Validity(FALSE, "invalid day (not 1-31)")
    /\ fn = "is_valid_month" =>
        ret[1] = IF arg[1] >= 1 /\ arg[1] <= 12
                 THEN Validity(TRUE, "")
                 ELSE Validity(FALSE, "invalid month (not 1-12)")
    /\ fn = "is_valid_year" =>
        ret[1] = IF arg[1] >= 1940
                 THEN Validity(TRUE, "")
                 ELSE Validity(FALSE, "birth_year older than 1940")

C8_Witness ==
    /\ fn = "is_valid_year"
    /\ arg = <<1940>>
    /\ ret = <<Validity(TRUE, "")>>

(***************************************************************************)
(* C9.  The record emitted for an input row carries the row's row_id and   *)
(* original_row_number unchanged: clean_row and clean_dataset never        *)
(* generate, renumber or swap identities between rows.                     *)
(***************************************************************************)
Ident(r) == <<r.row_id, r.original_row_number>>

Emitted == included_data \o excluded_data

C9_IdentityPreserved ==
    /\ Len(Emitted) = idx
    /\ {Ident(Emitted[k]) : k \in 1..Len(Emitted)} = {Ident(data[i]) : i \in 1..idx}
    /\ (idx >= 1 /\ last # <<>>) =>
        /\ Ident(last[1].cleaned) = Ident(data[idx])
        /\ last[1].is_valid =>
            Ident(included_data[Len(included_data)]) = Ident(data[idx])
        /\ ~last[1].is_valid =>
            Ident(excluded_data[Len(excluded_data)]) = Ident(data[idx])

C9_Witness ==
    /\ pc = "done"
    /\ Len(data) = 2
    /\ Len(included_data) = 1
    /\ Len(excluded_data) = 1
    /\ Ident(included_data[1]) = <<"id-a", 7>>
    /\ Ident(data[2]) = <<"id-a", 7>>
    /\ Ident(excluded_data[1]) = <<"id-c", 6>>

(***************************************************************************)
(* C10.  In every excluded record original_name, original_birth_day,       *)
(* original_birth_month and original_birth_year hold the raw text of the   *)
(* row's cell exactly as received (untrimmed, unparsed), or null when the  *)
(* cell is absent or empty.                                                *)
(***************************************************************************)
RawOrNull(cell) == IF cell = <<>> \/ cell = <<"">> THEN <<>> ELSE cell

C10_OriginalsRaw ==
    \A k \in 1..Len(excluded_data) :
        LET rec == excluded_data[k]
            row == RowOf(rec)
        IN  /\ rec.original_name = RawOrNull(row.firstname)
            /\ rec.original_birth_day = RawOrNull(row.birthday)
            /\ rec.original_birth_month = RawOrNull(row.birthmonth)
            /\ rec.original_birth_year = RawOrNull(row.birthyear)

C10_Witness ==
    /\ pc = "done"
    /\ \E k \in 1..Len(excluded_data) :
        /\ excluded_data[k].original_name = <<"  ">>
        /\ excluded_data[k].original_birth_day = <<" ">>
        /\ RowOf(excluded_data[k]).firstname = <<"  ">>
    /\ \E k \in 1..Len(excluded_data) :
        /\ excluded_data[k].original_name = <<>>
        /\ RowOf(excluded_data[k]).firstname = <<"">>
        /\ excluded_data[k].original_birth_month = <<>>
        /\ excluded_data[k].original_birth_year = <<"1939.9">>

(***************************************************************************)
(* C11: calling clean_dataset again on the same rows (same row_id and      *)
(* original_row_number) returns the same included list and the same        *)
(* excluded list as the call before: every record has the same fields,     *)
(* the same identifiers and lies in the same partition.                    *)
(***************************************************************************)
C11_RerunIdentical ==
    \A i, j \in DOMAIN calls :
        calls[i].data = calls[j].data
            => /\ calls[i].included = calls[j].included
               /\ calls[i].excluded = calls[j].excluded

\* two calls on the same two rows returned, one row included and one excluded
C11_Witness ==
    \E i, j \in DOMAIN calls :
        /\ i < j
        /\ calls[i].data = calls[j].data
        /\ Len(calls[j].included) = 1
        /\ Len(calls[j].excluded) = 1

(***************************************************************************)
(* C12: a call of clean_dataset owes nothing to the calls before it, and   *)
(* each of its two lists keeps the order of its argument: when the rows    *)
(* of one call are the rows of two other calls one after the other, its    *)
(* included (excluded) list is their included (excluded) lists one after   *)
(* the other, whether the DataCleaner was reused or not.                   *)
(***************************************************************************)
PositionIn(rows, row_id) == CHOOSE i \in 1..Len(rows) : rows[i].row_id = row_id

InInputOrder(rows, list) ==
    \A p, q \in 1..Len(list) :
        p < q => PositionIn(rows, list[p].row_id) < PositionIn(rows, list[q].row_id)

C12_BatchesConcatenate ==
    /\ \A i, j, k \in DOMAIN calls :
        calls[k].data = calls[i].data \o calls[j].data
            => /\ calls[k].included = calls[i].included \o calls[j].included
               /\ calls[k].excluded = calls[i].excluded \o calls[j].excluded
    /\ \A k \in DOMAIN calls :
        /\ InInputOrder(calls[k].data, calls[k].included)
        /\ InInputOrder(calls[k].data, calls[k].excluded)

\* a sheet of two rows that pass was cleaned whole and then row by row
C12_Witness ==
    /\ Len(calls) = 3
    /\ Len(calls[1].included) = 2
    /\ calls[2].data = SubSeq(calls[1].data, 1, 1)
    /\ calls[3].data = SubSeq(calls[1].data, 2, 2)
    /\ calls[1].included = calls[2].included \o calls[3].included

(***************************************************************************)
(* C13: a row has one row_id, the same in the original table and in the    *)
(* included or excluded table: when a run has completed, every row of the  *)
(* original table has the row_id of the included or excluded record with   *)
(* its original_row_number.                                                *)
(***************************************************************************)
SameRow(o, r) ==
    /\ r.original_row_number = o.original_row_number
    /\ r.row_id = o.row_id

C13_RowIdStable ==
    run_pc = "complete"
        => \A o \in original_table :
                \/ \E r \in included_table : SameRow(o, r)
                \/ \E r \in excluded_table : SameRow(o, r)

(***************************************************************************)
(* AnalyticsEngine of src/src/analytics.py: the constructor and one action *)
(* per method.  A dict is a record, a list a sequence.  A percentage is    *)
(* held in hundredths: 6000 is 60.0 and 3333 is 33.33.                     *)
(***************************************************************************)

MaxSampleRecords == 10    \* records[:10]
MaxGroups == 50           \* significant_duplicates[:50]

Person(name, birth_day, birth_month, birth_year) ==
    [name |-> name, birth_day |-> birth_day,
     birth_month |-> birth_month, birth_year |-> birth_year]

\* persons that agree in no field, in one, in two and in all, one of them
\* with a month that no month name belongs to
Persons ==
    {Person("Ann", 1, 1, 1990),
     Person("Ann", 1, 12, 2000),
     Person("Bob", 2, 1, 1990),
     Person("Bob", 1, 13, 1985)}

Reasons ==
    {"missing name; invalid birth_day (not numeric)",
     "missing name",
     "invalid birth_day (not numeric)"}

\* the records read from the included table: the i-th has row number i
IncludedOf(persons) ==
    [i \in 1..Len(persons) |->
        [row_id |-> uuid4(i),
         original_row_number |-> i,
         name |-> persons[i].name,
         birth_day |-> persons[i].birth_day,
         birth_month |-> persons[i].birth_month,
         birth_year |-> persons[i].birth_year]]

\* the records read from the excluded table, numbered after the included
ExcludedOf(reasons, included_count) ==
    [i \in 1..Len(reasons) |->
        [row_id |-> uuid4(included_count + i),
         original_row_number |-> included_count + i,
         original_name |-> <<>>,
         original_birth_day |-> <<"x">>,
         original_birth_month |-> <<"1">>,
         original_birth_year |-> <<"1990">>,
         exclusion_reason |-> reasons[i]]]

\* the k-th of nine persons that agree with each other in no field
Stranger(k) == Person("P" \o ToString(k), k, k, 1990 + k)

\* a list with more groups than get_duplicate_analysis reports and a group
\* with more members than it samples: eight strangers, then the ninth
\* stranger more often than a group is sampled, then the eight again from
\* the last to the first, then the first a third time
ManyDuplicates ==
    [i \in 1..8 |-> Stranger(i)]
        \o [i \in 1..(MaxSampleRecords + 1) |-> Stranger(9)]
        \o [i \in 1..8 |-> Stranger(9 - i)]
        \o <<Stranger(1)>>

IncludedLists ==
    {IncludedOf(l) : l \in RowLists(Persons, MaxIncluded) \cup {ManyDuplicates}}
ReasonLists == RowLists(Reasons, MaxExcluded)

\* the lists an engine is made of: every included list beside no excluded
\* record and beside two, and every list of reasons beside no included
\* record and beside three
EngineLists ==
    (IncludedLists
        \X {<<>>, <<"missing name; invalid birth_day (not numeric)", "missing name">>})
    \cup ({IncludedOf(<<>>),
           IncludedOf(<<Person("Ann", 1, 1, 1990), Person("Ann", 1, 12, 2000),
                        Person("Bob", 2, 1, 1990)>>)}
            \X ReasonLists)

\* total_original of the caller: no row, the rows of the two lists, or a
\* count the lists do not add up to
OriginalCounts(included_count, excluded_count) ==
    {0, included_count + excluded_count, 7}

AnalyticsEngine_init ==
    /\ fn = ""
    /\ \E lists \in EngineLists :
        \E count \in OriginalCounts(Len(lists[1]), Len(lists[2])) :
            engine' = [included_data |-> lists[1],
                       excluded_data |-> ExcludedOf(lists[2], Len(lists[1])),
                       original_count |-> count]
    /\ fn' = "AnalyticsEngine"
    /\ UNCHANGED <<arg, field, ret, cleanerVars, callerVars, pipelineVars, storeVars>>

\* a percentage cut off after the second decimal
round_percent_down(count, original_count) == (count * 10000) \div original_count

\* round(count / original_count * 100, 2), in hundredths; a tie goes to the
\* even neighbour
round_percent(count, original_count) ==
    LET q == (count * 10000) \div original_count
        r == (count * 10000) % original_count
    IN  IF 2 * r < original_count THEN q
        ELSE IF 2 * r > original_count THEN q + 1
        ELSE IF q % 2 = 0 THEN q ELSE q + 1

get_dataset_sizes ==
    LET included_count == Len(engine.included_data)
        excluded_count == Len(engine.excluded_data)
    IN  [original_row_count |-> engine.original_count,
         included_row_count |-> included_count,
         excluded_row_count |-> excluded_count,
         percent_included_vs_original |->
            IF engine.original_count > 0
            THEN round_percent(included_count, engine.original_count) ELSE 0,
         percent_excluded_vs_original |->
            IF engine.original_count > 0
            THEN round_percent(excluded_count, engine.original_count) ELSE 0]

\* what every method call leaves alone: no method assigns to a field of the
\* engine, so an engine is followed through one call
calledVars == <<arg, field, engine, cleanerVars, callerVars, pipelineVars, storeVars>>

call_get_dataset_sizes ==
    /\ fn = "AnalyticsEngine"
    /\ fn' = "get_dataset_sizes"
    /\ ret' = <<get_dataset_sizes>>
    /\ UNCHANGED calledVars

\* the metrics with the days of birth counted without the names
get_uniqueness_metrics_by_day ==
    LET rows == engine.included_data
    IN  IF Len(rows) = 0
        THEN [unique_names |-> 0,
              unique_birthday_combinations |-> 0,
              unique_name_year |-> 0,
              unique_name_month |-> 0,
              unique_name_day |-> 0]
        ELSE [unique_names |-> Cardinality({rows[i].name : i \in DOMAIN rows}),
              unique_birthday_combinations |->
                Cardinality({<<rows[i].birth_day, rows[i].birth_month, rows[i].birth_year>> :
                                i \in DOMAIN rows}),
              unique_name_year |->
                Cardinality({<<rows[i].name, rows[i].birth_year>> : i \in DOMAIN rows}),
              unique_name_month |->
                Cardinality({<<rows[i].name, rows[i].birth_month>> : i \in DOMAIN rows}),
              unique_name_day |->
                Cardinality({rows[i].birth_day : i \in DOMAIN rows})]

get_uniqueness_metrics ==
    LET rows == engine.included_data
    IN  IF Len(rows) = 0
        THEN [unique_names |-> 0,
              unique_birthday_combinations |-> 0,
              unique_name_year |-> 0,
              unique_name_month |-> 0,
              unique_name_day |-> 0]
        ELSE [unique_names |-> Cardinality({rows[i].name : i \in DOMAIN rows}),
              unique_birthday_combinations |->
                Cardinality({<<rows[i].birth_day, rows[i].birth_month, rows[i].birth_year>> :
                                i \in DOMAIN rows}),
              unique_name_year |->
                Cardinality({<<rows[i].name, rows[i].birth_year>> : i \in DOMAIN rows}),
              unique_name_month |->
                Cardinality({<<rows[i].name, rows[i].birth_month>> : i \in DOMAIN rows}),
              unique_name_day |->
                Cardinality({<<rows[i].name, rows[i].birth_day>> : i \in DOMAIN rows})]

call_get_uniqueness_metrics ==
    /\ fn = "AnalyticsEngine"
    /\ fn' = "get_uniqueness_metrics"
    /\ ret' = <<get_uniqueness_metrics>>
    /\ UNCHANGED calledVars

\* f"{a}|{b}": a name is its own text, a number its decimal text
format_key(a, b) == a \o "|" \o b

\* the key of name_day without the day
combinations_by_name(row) ==
    <<<<"name_day", row.name>>,
      <<"name_month", format_key(row.name, ToString(row.birth_month))>>,
      <<"name_year", format_key(row.name, ToString(row.birth_year))>>,
      <<"day_month", format_key(ToString(row.birth_day), ToString(row.birth_month))>>,
      <<"day_year", format_key(ToString(row.birth_day), ToString(row.birth_year))>>,
      <<"month_year", format_key(ToString(row.birth_month), ToString(row.birth_year))>>>>

combinations(row) ==
    <<<<"name_day", format_key(row.name, ToString(row.birth_day))>>,
      <<"name_month", format_key(row.name, ToString(row.birth_month))>>,
      <<"name_year", format_key(row.name, ToString(row.birth_year))>>,
      <<"day_month", format_key(ToString(row.birth_day), ToString(row.birth_month))>>,
      <<"day_year", format_key(ToString(row.birth_day), ToString(row.birth_year))>>,
      <<"month_year", format_key(ToString(row.birth_month), ToString(row.birth_year))>>>>

\* duplicate_groups[key].append(row) on a defaultdict(list), which keeps its
\* keys in the order of their first use: a sequence of (key, records)
groups_append(groups, key, row) ==
    IF \E i \in DOMAIN groups : groups[i].key = key
    THEN [i \in DOMAIN groups |->
            IF groups[i].key = key
            THEN [key |-> key, records |-> Append(groups[i].records, row)]
            ELSE groups[i]]
    ELSE Append(groups, [key |-> key, records |-> <<row>>])

\* the inner loop "for combo_type, combo_key in combinations", from the k-th
RECURSIVE groups_of_row(_, _, _, _)
groups_of_row(groups, combos, k, row) ==
    IF k > Len(combos) THEN groups
    ELSE groups_of_row(groups_append(groups, combos[k], row), combos, k + 1, row)

\* the outer loop "for row in self.included_data", from the i-th row
\* (Len(groups) >= 0 is true: it has TLC evaluate groups in every round and
\* not all rounds at the end)
RECURSIVE groups_of_rows(_, _, _)
groups_of_rows(groups, rows, i) ==
    IF i <= Len(rows) /\ Len(groups) >= 0
    THEN groups_of_rows(groups_of_row(groups, combinations(rows[i]), 1, rows[i]),
                        rows, i + 1)
    ELSE groups

\* records[:n]
first_n(records, n) == SubSeq(records, 1, IF Len(records) < n THEN Len(records) ELSE n)

\* the loop over duplicate_groups.items() that keeps the groups of 2+ records
RECURSIVE significant_of(_, _)
significant_of(groups, i) ==
    IF i > Len(groups) THEN <<>>
    ELSE IF Len(groups[i].records) >= 2
         THEN <<[combination_type |-> groups[i].key[1],
                 combination_value |-> groups[i].key[2],
                 count |-> Len(groups[i].records),
                 records |-> first_n(groups[i].records, MaxSampleRecords)]>>
              \o significant_of(groups, i + 1)
         ELSE significant_of(groups, i + 1)

RECURSIVE sum_of_counts(_, _)
sum_of_counts(list, i) ==
    IF i > Len(list) THEN 0 ELSE list[i].count + sum_of_counts(list, i + 1)

\* a sort that puts x before the entries of its count
insert_before_equals(done, x) ==
    LET n == Cardinality({i \in DOMAIN done : done[i].count > x.count})
    IN  SubSeq(done, 1, n) \o <<x>> \o SubSeq(done, n + 1, Len(done))

\* list.sort(key=count, reverse=True): a stable sort, entries of equal count
\* keep their order.  x is put behind the last entry that is not smaller
insert_by_count(done, x) ==
    LET n == Cardinality({i \in DOMAIN done : done[i].count >= x.count})
    IN  SubSeq(done, 1, n) \o <<x>> \o SubSeq(done, n + 1, Len(done))

\* (Len(done) >= 0 is true: it has TLC evaluate done in every round)
RECURSIVE sort_by_count(_, _, _)
sort_by_count(done, list, i) ==
    IF i <= Len(list) /\ Len(done) >= 0
    THEN sort_by_count(insert_by_count(done, list[i]), list, i + 1)
    ELSE done

duplicate_report(significant_duplicates) ==
    [total_duplicate_records |-> sum_of_counts(significant_duplicates, 1),
     unique_duplicate_groups |-> Len(significant_duplicates),
     duplicate_groups |->
        first_n(sort_by_count(<<>>, significant_duplicates, 1), MaxGroups)]

get_duplicate_analysis ==
    IF Len(engine.included_data) = 0
    THEN [total_duplicate_records |-> 0,
          duplicate_groups |-> <<>>]
    ELSE duplicate_report(significant_of(groups_of_rows(<<>>, engine.included_data, 1), 1))

call_get_duplicate_analysis ==
    /\ fn = "AnalyticsEngine"
    /\ fn' = "get_duplicate_analysis"
    /\ ret' = <<get_duplicate_analysis>>
    /\ UNCHANGED calledVars

\* Counter(values): every distinct value with the number of its occurrences
Counter(values) ==
    [v \in {values[i] : i \in DOMAIN values} |->
        Cardinality({i \in DOMAIN values : values[i] = v})]

\* sorted(keys): ascending
RECURSIVE sorted(_)
sorted(keys) ==
    IF keys = {} THEN <<>>
    ELSE LET least == CHOOSE x \in keys : \A y \in keys : x <= y
         IN  <<least>> \o sorted(keys \ {least})

get_birth_year_distribution ==
    IF Len(engine.included_data) = 0 THEN <<>>
    ELSE LET year_counts ==
                Counter([i \in DOMAIN engine.included_data |->
                            engine.included_data[i].birth_year])
             years == sorted(DOMAIN year_counts)
         IN  [k \in DOMAIN years |->
                [year |-> years[k], count |-> year_counts[years[k]]]]

call_get_birth_year_distribution ==
    /\ fn = "AnalyticsEngine"
    /\ fn' = "get_birth_year_distribution"
    /\ ret' = <<get_birth_year_distribution>>
    /\ UNCHANGED calledVars

month_names ==
    <<"January", "February", "March", "April", "May", "June", "July",
      "August", "September", "October", "November", "December">>

\* a month name for every number: the thirteenth month is the first again
month_names_get_wrapping(month) == month_names[((month - 1) % 12) + 1]

\* month_names.get(month, 'Unknown')
month_names_get(month) ==
    IF month \in DOMAIN month_names THEN month_names[month] ELSE "Unknown"

get_birth_month_distribution ==
    IF Len(engine.included_data) = 0 THEN <<>>
    ELSE LET month_counts ==
                Counter([i \in DOMAIN engine.included_data |->
                            engine.included_data[i].birth_month])
             months == sorted(DOMAIN month_counts)
         IN  [k \in DOMAIN months |->
                [month |-> months[k],
                 month_name |-> month_names_get(months[k]),
                 count |-> month_counts[months[k]]]]

call_get_birth_month_distribution ==
    /\ fn = "AnalyticsEngine"
    /\ fn' = "get_birth_month_distribution"
    /\ ret' = <<get_birth_month_distribution>>
    /\ UNCHANGED calledVars

\* a reason that was counted before is not counted again
reason_counts_add_once(reason_counts, reason) ==
    IF \E i \in DOMAIN reason_counts : reason_counts[i].reason = reason
    THEN reason_counts
    ELSE Append(reason_counts, [reason |-> reason, count |-> 1])

\* reason_counts[reason] += 1 on a Counter, which keeps its keys in the order
\* of their first use: a sequence of (reason, count)
reason_counts_add(reason_counts, reason) ==
    IF \E i \in DOMAIN reason_counts : reason_counts[i].reason = reason
    THEN [i \in DOMAIN reason_counts |->
            IF reason_counts[i].reason = reason
            THEN [reason |-> reason, count |-> reason_counts[i].count + 1]
            ELSE reason_counts[i]]
    ELSE Append(reason_counts, [reason |-> reason, count |-> 1])

\* the inner loop "for reason in reasons", from the k-th
RECURSIVE count_reasons(_, _, _)
count_reasons(reason_counts, reasons, k) ==
    IF k > Len(reasons) THEN reason_counts
    ELSE IF strip(reasons[k]) # ""
         THEN count_reasons(reason_counts_add(reason_counts, strip(reasons[k])),
                            reasons, k + 1)
         ELSE count_reasons(reason_counts, reasons, k + 1)

\* the outer loop "for row in self.excluded_data", from the i-th row
RECURSIVE count_rows(_, _, _)
count_rows(reason_counts, rows, i) ==
    IF i > Len(rows) THEN reason_counts
    ELSE count_rows(count_reasons(reason_counts,
                                  split(rows[i].exclusion_reason, ";"), 1),
                    rows, i + 1)

\* the summary in the order in which the reasons were met
get_exclusion_reasons_summary_unsorted ==
    IF Len(engine.excluded_data) = 0 THEN <<>>
    ELSE count_rows(<<>>, engine.excluded_data, 1)

\* most_common() sorts by count, largest first, and is stable
get_exclusion_reasons_summary ==
    IF Len(engine.excluded_data) = 0 THEN <<>>
    ELSE sort_by_count(<<>>, count_rows(<<>>, engine.excluded_data, 1), 1)

call_get_exclusion_reasons_summary ==
    /\ fn = "AnalyticsEngine"
    /\ fn' = "get_exclusion_reasons_summary"
    /\ ret' = <<get_exclusion_reasons_summary>>
    /\ UNCHANGED calledVars

get_comprehensive_analytics ==
    [dataset_sizes |-> get_dataset_sizes,
     uniqueness_metrics |-> get_uniqueness_metrics,
     duplicate_analysis |-> get_duplicate_analysis,
     birth_year_distribution |-> get_birth_year_distribution,
     birth_month_distribution |-> get_birth_month_distribution,
     exclusion_reasons |-> get_exclusion_reasons_summary]

\* the call uses the excluded records up
call_get_comprehensive_analytics_draining ==
    /\ fn = "AnalyticsEngine"
    /\ fn' = "get_comprehensive_analytics"
    /\ ret' = <<get_comprehensive_analytics>>
    /\ engine' = [engine EXCEPT !.excluded_data = <<>>]
    /\ UNCHANGED <<arg, field, cleanerVars, callerVars, pipelineVars, storeVars>>

call_get_comprehensive_analytics ==
    /\ fn = "AnalyticsEngine"
    /\ fn' = "get_comprehensive_analytics"
    /\ ret' = <<get_comprehensive_analytics>>
    /\ UNCHANGED calledVars

\* one more call on the engine: ret holds the reports of all calls
call_get_comprehensive_analytics_again ==
    /\ fn = "get_comprehensive_analytics"
    /\ Len(ret) < MaxReports
    /\ ret' = Append(ret, get_comprehensive_analytics)
    /\ UNCHANGED <<fn, calledVars>>


NextAnalytics ==
    \/ AnalyticsEngine_init
    \/ call_get_dataset_sizes
    \/ call_get_uniqueness_metrics
    \/ call_get_duplicate_analysis
    \/ call_get_birth_year_distribution
    \/ call_get_birth_month_distribution
    \/ call_get_exclusion_reasons_summary
    \/ call_get_comprehensive_analytics
    \/ call_get_comprehensive_analytics_again

SpecAnalytics == Init /\ [][NextAnalytics]_vars

(***************************************************************************)
(* C14: get_dataset_sizes reports the lengths of the two lists and the     *)
(* original count it was given; both percentages are 0 when the original   *)
(* count is 0, and otherwise each is count / original_count * 100 to the   *)
(* nearest hundredth: 3 included and 2 excluded of 5 give 60.0 and 40.0.   *)
(***************************************************************************)
Distance(a, b) == IF a < b THEN b - a ELSE a - b

\* percent (in hundredths) is a nearest hundredth of count / original * 100
IsRounded(percent, count, original) ==
    2 * Distance(percent * original, count * 10000) <= original

C14_DatasetSizes ==
    fn = "get_dataset_sizes" =>
        LET sizes == ret[1]
            included_count == Len(engine.included_data)
            excluded_count == Len(engine.excluded_data)
            original == engine.original_count
        IN  /\ sizes.original_row_count = original
            /\ sizes.included_row_count = included_count
            /\ sizes.excluded_row_count = excluded_count
            /\ original = 0 =>
                /\ sizes.percent_included_vs_original = 0
                /\ sizes.percent_excluded_vs_original = 0
            /\ original # 0 =>
                /\ IsRounded(sizes.percent_included_vs_original, included_count, original)
                /\ IsRounded(sizes.percent_excluded_vs_original, excluded_count, original)
            /\ (included_count = 3 /\ excluded_count = 2 /\ original = 5) =>
                /\ sizes.percent_included_vs_original = 6000
                /\ sizes.percent_excluded_vs_original = 4000

\* 3 included and 2 excluded of 5: 60.0 and 40.0
C14_Witness ==
    /\ fn = "get_dataset_sizes"
    /\ Len(engine.included_data) = 3
    /\ Len(engine.excluded_data) = 2
    /\ engine.original_count = 5
    /\ ret[1].percent_included_vs_original = 6000
    /\ ret[1].percent_excluded_vs_original = 4000

(***************************************************************************)
(* C15: when the included list is empty, the report of                     *)
(* get_comprehensive_analytics has every metric of the included records    *)
(* in its zero or empty form, under the field names of the non-empty       *)
(* case: five uniqueness counts of 0, a duplicate_analysis with            *)
(* total_duplicate_records 0, unique_duplicate_groups 0 and no groups,     *)
(* two empty distributions; when the excluded list is empty,               *)
(* exclusion_reasons is empty.                                             *)
(***************************************************************************)
EmptyIncludedForms(report) ==
    /\ report.uniqueness_metrics =
            [unique_names |-> 0,
             unique_birthday_combinations |-> 0,
             unique_name_year |-> 0,
             unique_name_month |-> 0,
             unique_name_day |-> 0]
    /\ report.duplicate_analysis.total_duplicate_records = 0
    /\ report.duplicate_analysis.duplicate_groups = <<>>
    /\ report.birth_year_distribution = <<>>
    /\ report.birth_month_distribution = <<>>

C15_EmptyForms ==
    fn = "get_comprehensive_analytics" =>
        /\ Len(engine.included_data) = 0 =>
            /\ EmptyIncludedForms(ret[1])
            /\ "unique_duplicate_groups" \in DOMAIN ret[1].duplicate_analysis
            /\ ret[1].duplicate_analysis.unique_duplicate_groups = 0
        /\ Len(engine.excluded_data) = 0 =>
            ret[1].exclusion_reasons = <<>>

(***************************************************************************)
(* C16: for each of the six key types, two included records are in the     *)
(* same duplicate group exactly when they agree on both fields of the      *)
(* type; a group is reported exactly when it has 2 or more members, and    *)
(* its count is the number of all its members.  Two records of Ann with    *)
(* day 1 give the name_day group "Ann|1" with count 2; a record that       *)
(* agrees with no other on two fields is in no group.                      *)
(***************************************************************************)
KeyFields ==
    [name_day |-> <<"name", "birth_day">>,
     name_month |-> <<"name", "birth_month">>,
     name_year |-> <<"name", "birth_year">>,
     day_month |-> <<"birth_day", "birth_month">>,
     day_year |-> <<"birth_day", "birth_year">>,
     month_year |-> <<"birth_month", "birth_year">>]

KeyTypes == DOMAIN KeyFields

Agree(type, r1, r2) ==
    /\ r1[KeyFields[type][1]] = r2[KeyFields[type][1]]
    /\ r1[KeyFields[type][2]] = r2[KeyFields[type][2]]

\* the positions of the included records that agree with r on the type's fields
Members(type, r) ==
    {i \in DOMAIN engine.included_data : Agree(type, engine.included_data[i], r)}

\* a reported group holds the records that agree with its first one
IsGroup(g) ==
    /\ g.combination_type \in KeyTypes
    /\ g.count = Cardinality(Members(g.combination_type, g.records[1]))
    /\ g.count >= 2
    /\ \A k \in DOMAIN g.records :
        \E i \in Members(g.combination_type, g.records[1]) :
            g.records[k] = engine.included_data[i]

C16_DuplicateGroups ==
    fn = "get_duplicate_analysis" =>
        LET groups == ret[1].duplicate_groups
            rows == engine.included_data
        IN  /\ \A g \in DOMAIN groups : IsGroup(groups[g])
            /\ \A g, h \in DOMAIN groups :
                (g # h /\ groups[g].combination_type = groups[h].combination_type)
                    => ~Agree(groups[g].combination_type,
                              groups[g].records[1], groups[h].records[1])
            /\ Len(groups) < MaxGroups =>
                \A type \in KeyTypes, i \in DOMAIN rows :
                    Cardinality(Members(type, rows[i])) >= 2
                        <=> \E g \in DOMAIN groups :
                                /\ groups[g].combination_type = type
                                /\ Agree(type, groups[g].records[1], rows[i])
            /\ Cardinality({i \in DOMAIN rows :
                                rows[i].name = "Ann" /\ rows[i].birth_day = 1}) = 2 =>
                \E g \in DOMAIN groups :
                    /\ groups[g].combination_type = "name_day"
                    /\ groups[g].combination_value = "Ann|1"
                    /\ groups[g].count = 2

\* two records of Ann with day 1 and a record of Bob, who agrees with them
\* on the day only: the one group is "Ann|1"
C16_Witness ==
    /\ fn = "get_duplicate_analysis"
    /\ Len(engine.included_data) = 3
    /\ engine.included_data[3].name = "Bob"
    /\ Len(ret[1].duplicate_groups) = 1
    /\ ret[1].duplicate_groups[1].combination_type = "name_day"
    /\ ret[1].duplicate_groups[1].combination_value = "Ann|1"
    /\ ret[1].duplicate_groups[1].count = 2

(***************************************************************************)
(* C17: duplicate_groups lists at most 50 of the groups with 2 or more     *)
(* members, largest count first, groups of equal count in the order in     *)
(* which their keys were met first while scanning the included records;    *)
(* the groups listed are the first 50 in that order; each carries at most  *)
(* 10 records, the first members of the group in input order.              *)
(***************************************************************************)
TypeOrder ==
    [name_day |-> 1, name_month |-> 2, name_year |-> 3,
     day_month |-> 4, day_year |-> 5, month_year |-> 6]

FirstMember(type, r) ==
    CHOOSE i \in Members(type, r) : \A j \in Members(type, r) : i <= j

\* a group with 2 or more members, named by its type and its first member
Retained ==
    {k \in KeyTypes \X DOMAIN engine.included_data :
        /\ Cardinality(Members(k[1], engine.included_data[k[2]])) >= 2
        /\ k[2] = FirstMember(k[1], engine.included_data[k[2]])}

CountOf(k) == Cardinality(Members(k[1], engine.included_data[k[2]]))

\* a is listed before b: the larger count, then the key that was met first
Before(a, b) ==
    \/ CountOf(a) > CountOf(b)
    \/ /\ CountOf(a) = CountOf(b)
       /\ \/ a[2] < b[2]
          \/ a[2] = b[2] /\ TypeOrder[a[1]] < TypeOrder[b[1]]

PositionOf(record) ==
    CHOOSE i \in DOMAIN engine.included_data : engine.included_data[i] = record

KeyOf(g) == <<g.combination_type, PositionOf(g.records[1])>>

Smaller(a, b) == IF a < b THEN a ELSE b

\* the record at position at is the k-th of the members
IsMemberNumber(k, at, members) ==
    /\ at \in members
    /\ Cardinality({i \in members : i <= at}) = k

\* the records of g are its first members, in input order
SamplesOf(g, members) ==
    /\ Len(g.records) = Smaller(MaxSampleRecords, g.count)
    /\ \A k \in DOMAIN g.records :
        IsMemberNumber(k, PositionOf(g.records[k]), members)

SamplesFirst(g) == SamplesOf(g, Members(g.combination_type, g.records[1]))

Listed(groups) == {KeyOf(groups[p]) : p \in DOMAIN groups}

\* groups is the head of the retained groups in the order of Before
IsTopOf(groups, retained, listed) ==
    /\ Len(groups) = Smaller(MaxGroups, Cardinality(retained))
    /\ listed \subseteq retained
    /\ \A p \in DOMAIN groups :
        /\ groups[p].count = CountOf(KeyOf(groups[p]))
        /\ SamplesFirst(groups[p])
        /\ \A k \in retained \ listed : Before(KeyOf(groups[p]), k)
    /\ \A p \in 1..(Len(groups) - 1) :
        Before(KeyOf(groups[p]), KeyOf(groups[p + 1]))

C17_TopGroups ==
    fn = "get_duplicate_analysis" =>
        IsTopOf(ret[1].duplicate_groups, Retained, Listed(ret[1].duplicate_groups))

\* more groups than are listed, the first with more members than are
\* sampled, and groups of equal count
C17_Witness ==
    /\ fn = "get_duplicate_analysis"
    /\ Cardinality(Retained) > MaxGroups
    /\ Len(ret[1].duplicate_groups) = MaxGroups
    /\ ret[1].duplicate_groups[1].count > MaxSampleRecords
    /\ Len(ret[1].duplicate_groups[1].records) = MaxSampleRecords
    /\ ret[1].duplicate_groups[2].count = ret[1].duplicate_groups[1].count
    /\ ret[1].duplicate_groups[MaxGroups].count < ret[1].duplicate_groups[1].count

(***************************************************************************)
(* C18: total_duplicate_records is the sum of the member counts of all     *)
(* groups with 2 or more members and unique_duplicate_groups is the        *)
(* number of these groups, of all of them and not of the 50 listed; a      *)
(* record counts once for every key type in which another record agrees    *)
(* with it.                                                                *)
(***************************************************************************)
RECURSIVE SumOfCounts(_)
SumOfCounts(keys) ==
    IF keys = {} THEN 0
    ELSE LET k == CHOOSE x \in keys : TRUE
         IN  CountOf(k) + SumOfCounts(keys \ {k})

\* the (key type, record) pairs in which the record has a duplicate
Duplicated ==
    {k \in KeyTypes \X DOMAIN engine.included_data : CountOf(k) >= 2}

TotalsOver(report, retained) ==
    /\ report.unique_duplicate_groups = Cardinality(retained)
    /\ report.total_duplicate_records = SumOfCounts(retained)
    /\ report.total_duplicate_records = Cardinality(Duplicated)

C18_DuplicateTotals ==
    fn = "get_duplicate_analysis" =>
        /\ "unique_duplicate_groups" \in DOMAIN ret[1]
        /\ TotalsOver(ret[1], Retained)

(***************************************************************************)
(* C19: get_uniqueness_metrics counts, over the included records alone,    *)
(* the distinct names, the distinct (day, month, year) triples and the     *)
(* distinct (name, year), (name, month) and (name, day) pairs; each count  *)
(* lies between 1 and the number of included records when there is one,    *)
(* and all five are 0 when there is none.                                  *)
(***************************************************************************)
MetricFields ==
    [unique_names |-> {"name"},
     unique_birthday_combinations |-> {"birth_day", "birth_month", "birth_year"},
     unique_name_year |-> {"name", "birth_year"},
     unique_name_month |-> {"name", "birth_month"},
     unique_name_day |-> {"name", "birth_day"}]

\* the positions of the included records that differ from every earlier
\* record in one of the fields: one position for every distinct value
FirstOfValue(fields) ==
    {i \in DOMAIN engine.included_data :
        \A j \in 1..(i - 1) :
            \E f \in fields :
                engine.included_data[j][f] # engine.included_data[i][f]}

C19_UniquenessMetrics ==
    fn = "get_uniqueness_metrics" =>
        /\ DOMAIN ret[1] = DOMAIN MetricFields
        /\ \A m \in DOMAIN MetricFields :
            /\ ret[1][m] = Cardinality(FirstOfValue(MetricFields[m]))
            /\ Len(engine.included_data) > 0 =>
                    ret[1][m] \in 1..Len(engine.included_data)
            /\ Len(engine.included_data) = 0 => ret[1][m] = 0

\* three records of one name born in two years, two of them the same person,
\* beside an excluded record: one name, two of every other value
C19_Witness ==
    /\ fn = "get_uniqueness_metrics"
    /\ Len(engine.included_data) = 3
    /\ Len(engine.excluded_data) > 0
    /\ ret[1].unique_names = 1
    /\ ret[1].unique_name_year = 2
    /\ ret[1].unique_birthday_combinations = 2
    /\ ret[1].unique_name_day = 1

(***************************************************************************)
(* C20: the distribution of the years of birth and that of the months      *)
(* list every value that occurs in the included records once, in           *)
(* ascending order of the value, with the number of included records that  *)
(* have the value, so that the counts add up to the number of included     *)
(* records; a month entry carries the English name of its month, January   *)
(* for 1 to December for 12, and "Unknown" for any other number.           *)
(***************************************************************************)
RECURSIVE SumOfEntries(_, _)
SumOfEntries(entries, k) ==
    IF k > Len(entries) THEN 0
    ELSE entries[k].count + SumOfEntries(entries, k + 1)

\* entries is the distribution of the included records' column, every entry
\* holding its value under key
IsDistribution(entries, key, column) ==
    /\ \A i \in DOMAIN engine.included_data :
            Cardinality({k \in DOMAIN entries :
                            entries[k][key] = engine.included_data[i][column]}) = 1
    /\ \A k \in DOMAIN entries :
        /\ entries[k].count >= 1
        /\ entries[k].count =
                Cardinality({i \in DOMAIN engine.included_data :
                                engine.included_data[i][column] = entries[k][key]})
    /\ \A k \in 1..(Len(entries) - 1) : entries[k][key] < entries[k + 1][key]
    /\ SumOfEntries(entries, 1) = Len(engine.included_data)

EnglishName(month) ==
    CASE month = 1 -> "January"   [] month = 2 -> "February"
      [] month = 3 -> "March"     [] month = 4 -> "April"
      [] month = 5 -> "May"       [] month = 6 -> "June"
      [] month = 7 -> "July"      [] month = 8 -> "August"
      [] month = 9 -> "September" [] month = 10 -> "October"
      [] month = 11 -> "November" [] month = 12 -> "December"
      [] OTHER -> "Unknown"

IsYearDistribution(entries) ==
    /\ IsDistribution(entries, "year", "birth_year")
    /\ \A k \in DOMAIN entries : DOMAIN entries[k] = {"year", "count"}

IsMonthDistribution(entries) ==
    /\ IsDistribution(entries, "month", "birth_month")
    /\ \A k \in DOMAIN entries :
        /\ DOMAIN entries[k] = {"month", "month_name", "count"}
        /\ entries[k].month_name = EnglishName(entries[k].month)

C20_Distributions ==
    /\ fn = "get_birth_year_distribution" => IsYearDistribution(ret[1])
    /\ fn = "get_birth_month_distribution" => IsMonthDistribution(ret[1])
    /\ fn = "get_comprehensive_analytics" =>
        /\ IsYearDistribution(ret[1].birth_year_distribution)
        /\ IsMonthDistribution(ret[1].birth_month_distribution)

\* the later year comes first in the included records and the earlier year
\* first in the distribution, the later year with two records; the months
\* are January, with two records, and a month without a name
C20_Witness ==
    /\ fn = "get_comprehensive_analytics"
    /\ Len(engine.included_data) = 3
    /\ engine.included_data[1].birth_year > engine.included_data[2].birth_year
    /\ Len(ret[1].birth_year_distribution) = 2
    /\ ret[1].birth_year_distribution[2].count = 2
    /\ Len(ret[1].birth_month_distribution) = 2
    /\ ret[1].birth_month_distribution[1].month_name = "January"
    /\ ret[1].birth_month_distribution[1].count = 2
    /\ ret[1].birth_month_distribution[2].month_name = "Unknown"

(***************************************************************************)
(* C21: get_exclusion_reasons_summary counts every reason code once for    *)
(* each of its occurrences in the exclusion_reason of an excluded record,  *)
(* split at "; " and trimmed: a record with k reasons adds 1 to each of k  *)
(* counts, and the counts add up to the number of reasons of all excluded  *)
(* records ("missing name; invalid birth_day (not numeric)" and "missing   *)
(* name" give 2 and 1).                                                    *)
(***************************************************************************)
ReasonsOfRecord(i) == split(engine.excluded_data[i].exclusion_reason, "; ")

\* the occurrences of a reason: the k-th reason of the i-th excluded record
Occurrences ==
    UNION {{<<i, k>> : k \in DOMAIN ReasonsOfRecord(i)} :
                i \in DOMAIN engine.excluded_data}

CodeAt(o) == strip(ReasonsOfRecord(o[1])[o[2]])

C21_ReasonCounts ==
    fn = "get_exclusion_reasons_summary" =>
        /\ \A o \in Occurrences :
                Cardinality({k \in DOMAIN ret[1] : ret[1][k].reason = CodeAt(o)}) = 1
        /\ \A k \in DOMAIN ret[1] :
            /\ DOMAIN ret[1][k] = {"reason", "count"}
            /\ ret[1][k].count >= 1
            /\ ret[1][k].count =
                    Cardinality({o \in Occurrences : CodeAt(o) = ret[1][k].reason})
        /\ SumOfEntries(ret[1], 1) = Cardinality(Occurrences)

\* the two records of the example
C21_Witness ==
    /\ fn = "get_exclusion_reasons_summary"
    /\ Len(engine.excluded_data) = 2
    /\ engine.excluded_data[1].exclusion_reason =
            "missing name; invalid birth_day (not numeric)"
    /\ engine.excluded_data[2].exclusion_reason = "missing name"
    /\ ret[1] = <<[reason |-> "missing name", count |-> 2],
                  [reason |-> "invalid birth_day (not numeric)", count |-> 1]>>

(***************************************************************************)
(* C22: the summary of the exclusion reasons is ordered by count, the      *)
(* largest first, and reasons of equal count stand in the order in which   *)
(* they were first met while the excluded records were read.               *)
(***************************************************************************)
OccurrenceBefore(o1, o2) ==
    \/ o1[1] < o2[1]
    \/ o1[1] = o2[1] /\ o1[2] < o2[2]

\* reason r1 was met before reason r2 was
MetBefore(r1, r2) ==
    \E o1 \in Occurrences :
        /\ CodeAt(o1) = r1
        /\ \A o2 \in Occurrences : CodeAt(o2) = r2 => OccurrenceBefore(o1, o2)

C22_SummaryOrder ==
    fn = "get_exclusion_reasons_summary" =>
        \A k \in 1..(Len(ret[1]) - 1) :
            \/ ret[1][k].count > ret[1][k + 1].count
            \/ /\ ret[1][k].count = ret[1][k + 1].count
               /\ MetBefore(ret[1][k].reason, ret[1][k + 1].reason)

\* the reason that was met second is listed first, for its larger count
C22_Witness ==
    /\ fn = "get_exclusion_reasons_summary"
    /\ Len(ret[1]) = 2
    /\ ret[1][1].count > ret[1][2].count
    /\ MetBefore(ret[1][2].reason, ret[1][1].reason)

(***************************************************************************)
(* SupabaseManager._insert_batch(table_name, batch, batch_num) of          *)
(* src/src/supabase_data.py on the included table: the retry loop with one *)
(* insert request of the whole batch per round, then the row loop with one *)
(* request per row.  A request is one statement of the store: it lands     *)
(* all of its rows or none.  The store refuses a request with a row that   *)
(* breaks a constraint of the table, and any request may fail for a reason *)
(* that is not in its rows (the connection, a timeout).  create_client has *)
(* succeeded with the same arguments in __init__ and does not fail.        *)
(***************************************************************************)
MaxBatch == 3             \* _insert_batch gets every batch of at most this many rows
max_retries == 3          \* max_retries: int = 3

\* records for the included table: one the table takes and one it refuses
\* for its month
InsertPersons ==
    {Person("Ann", 1, 1, 1990),
     Person("Cy", 3, 13, 1990)}

InsertBatches ==
    {IncludedOf(l) : l \in RowLists(InsertPersons, MaxBatch) \ {<<>>}}

\* the constraints of the included table on one row
included_row_ok(row) ==
    /\ row.birth_day >= 1 /\ row.birth_day <= 31
    /\ row.birth_month >= 1 /\ row.birth_month <= 12
    /\ row.birth_year >= 1940

\* the table takes the rows: every row keeps the constraints and row_id, the
\* primary key, stays unique
included_table_takes(table, rows) ==
    /\ \A i \in DOMAIN rows : included_row_ok(rows[i])
    /\ \A i \in DOMAIN rows : \A r \in table : r.row_id # rows[i].row_id
    /\ \A i, j \in DOMAIN rows : rows[i].row_id = rows[j].row_id => i = j

_insert_batch_call ==
    /\ ib_pc = "idle"
    /\ \E batch \in InsertBatches : ib_batch' = batch
    /\ ib_pc' = "batch"
    /\ retry' = 0
    /\ rows_inserted' = 0
    /\ rows_failed' = 0
    /\ UNCHANGED <<ib_row, ib_ret, ib_table, ib_log>>
    /\ UNCHANGED <<callVars, cleanerVars, callerVars, pipelineVars, engineVars, runVars,
                   workerVars, routeVars>>

\* one round of the retry loop in which insert(batch).execute() returns
_insert_batch_inserted ==
    /\ ib_pc = "batch"
    /\ retry < max_retries
    /\ included_table_takes(ib_table, ib_batch)
    /\ ib_table' = ib_table \cup Range(ib_batch)
    /\ ib_log' = Append(ib_log, [rows |-> DOMAIN ib_batch, whole |-> TRUE, landed |-> TRUE])
    /\ rows_inserted' = Len(ib_batch)
    /\ ib_ret' = <<[rows_inserted |-> Len(ib_batch), rows_failed |-> rows_failed]>>
    /\ ib_pc' = "returned"
    /\ UNCHANGED <<ib_batch, retry, ib_row, rows_failed>>
    /\ UNCHANGED <<callVars, cleanerVars, callerVars, pipelineVars, engineVars, runVars,
                   workerVars, routeVars>>

\* one round of the retry loop in which it raises: the next round after the
\* sleep, or after the last round the row loop
_insert_batch_failed ==
    /\ ib_pc = "batch"
    /\ retry < max_retries
    /\ ib_log' = Append(ib_log, [rows |-> DOMAIN ib_batch, whole |-> TRUE, landed |-> FALSE])
    /\ IF retry < max_retries - 1
       THEN /\ retry' = retry + 1
            /\ UNCHANGED <<ib_pc, ib_row>>
       ELSE /\ ib_pc' = "rows"
            /\ ib_row' = 0
            /\ UNCHANGED retry
    /\ UNCHANGED <<ib_batch, rows_inserted, rows_failed, ib_ret, ib_table>>
    /\ UNCHANGED <<callVars, cleanerVars, callerVars, pipelineVars, engineVars, runVars,
                   workerVars, routeVars>>

\* the row loop ends at the first row that fails, the rows after it counted
\* as failed
_insert_batch_row_giving_up ==
    /\ ib_pc = "rows"
    /\ ib_row < Len(ib_batch)
    /\ \/ /\ included_table_takes(ib_table, <<ib_batch[ib_row + 1]>>)
          /\ ib_table' = ib_table \cup {ib_batch[ib_row + 1]}
          /\ ib_log' = Append(ib_log, [rows |-> {ib_row + 1}, whole |-> FALSE, landed |-> TRUE])
          /\ rows_inserted' = rows_inserted + 1
          /\ ib_row' = ib_row + 1
          /\ UNCHANGED rows_failed
       \/ /\ ib_log' = Append(ib_log, [rows |-> {ib_row + 1}, whole |-> FALSE, landed |-> FALSE])
          /\ rows_failed' = rows_failed + Len(ib_batch) - ib_row
          /\ ib_row' = Len(ib_batch)
          /\ UNCHANGED <<rows_inserted, ib_table>>
    /\ UNCHANGED <<ib_pc, ib_batch, retry, ib_ret>>
    /\ UNCHANGED <<callVars, cleanerVars, callerVars, pipelineVars, engineVars, runVars,
                   workerVars, routeVars>>

\* one round of the row loop: insert([row]).execute() returns or raises
_insert_batch_row ==
    /\ ib_pc = "rows"
    /\ ib_row < Len(ib_batch)
    /\ ib_row' = ib_row + 1
    /\ \/ /\ included_table_takes(ib_table, <<ib_batch[ib_row + 1]>>)
          /\ ib_table' = ib_table \cup {ib_batch[ib_row + 1]}
          /\ ib_log' = Append(ib_log, [rows |-> {ib_row + 1}, whole |-> FALSE, landed |-> TRUE])
          /\ rows_inserted' = rows_inserted + 1
          /\ UNCHANGED rows_failed
       \/ /\ ib_log' = Append(ib_log, [rows |-> {ib_row + 1}, whole |-> FALSE, landed |-> FALSE])
          /\ rows_failed' = rows_failed + 1
          /\ UNCHANGED <<rows_inserted, ib_table>>
    /\ UNCHANGED <<ib_pc, ib_batch, retry, ib_ret>>
    /\ UNCHANGED <<callVars, cleanerVars, callerVars, pipelineVars, engineVars, runVars,
                   workerVars, routeVars>>

\* the return after the row loop
_insert_batch_return ==
    /\ ib_pc = "rows"
    /\ ib_row = Len(ib_batch)
    /\ ib_ret' = <<[rows_inserted |-> rows_inserted, rows_failed |-> rows_failed]>>
    /\ ib_pc' = "returned"
    /\ UNCHANGED <<ib_batch, retry, ib_row, rows_inserted, rows_failed, ib_table, ib_log>>
    /\ UNCHANGED <<callVars, cleanerVars, callerVars, pipelineVars, engineVars, runVars,
                   workerVars, routeVars>>

NextInsert ==
    \/ _insert_batch_call
    \/ _insert_batch_inserted
    \/ _insert_batch_failed
    \/ _insert_batch_row
    \/ _insert_batch_return

\* the thread that runs _insert_batch goes on running, and a request to the
\* store returns or raises
SpecInsert == Init /\ [][NextInsert]_vars /\ WF_vars(NextInsert)

(***************************************************************************)
(* C23: _insert_batch makes at least one and at most max_retries (3)       *)
(* insert requests of the whole batch and stops at the first that lands;   *)
(* only after all of them failed does it insert the rows one by one, each  *)
(* row requested once, so that a row whose own request lands is in the     *)
(* table also when another row of the batch is refused; the call always    *)
(* returns, with rows_inserted + rows_failed = len(batch).                 *)
(***************************************************************************)
BatchAttempts == {k \in DOMAIN ib_log : ib_log[k].whole}
RowAttempts(i) == {k \in DOMAIN ib_log : ~ib_log[k].whole /\ ib_log[k].rows = {i}}

\* the rows of the batch that were in a request that landed
Landed ==
    {i \in DOMAIN ib_batch : \E k \in DOMAIN ib_log : ib_log[k].landed /\ i \in ib_log[k].rows}

InsertBatchAttempts ==
    /\ Cardinality(BatchAttempts) <= max_retries
    /\ \A k \in DOMAIN ib_log : ib_log[k].whole /\ ib_log[k].landed => k = Len(ib_log)
    /\ \A k \in DOMAIN ib_log :
            ~ib_log[k].whole =>
                /\ Cardinality(BatchAttempts) = max_retries
                /\ \A j \in BatchAttempts : j < k /\ ~ib_log[j].landed
    /\ \A i \in DOMAIN ib_batch : Cardinality(RowAttempts(i)) <= 1
    /\ ib_table = {ib_batch[i] : i \in Landed}
    /\ ib_pc = "returned" =>
        /\ Cardinality(BatchAttempts) >= 1
        /\ \/ \E k \in BatchAttempts : ib_log[k].landed
           \/ \A i \in DOMAIN ib_batch : Cardinality(RowAttempts(i)) = 1
        /\ ib_ret[1].rows_inserted + ib_ret[1].rows_failed = Len(ib_batch)
        /\ ib_ret[1].rows_inserted = Cardinality(Landed)

C23_InsertBatch ==
    /\ []InsertBatchAttempts
    /\ (ib_pc = "batch") ~> (ib_pc = "returned")

\* three rows of which the table refuses the second: the first and the third
\* are in the table
C23_Witness ==
    /\ ib_pc = "returned"
    /\ Len(ib_batch) = 3
    /\ ~included_row_ok(ib_batch[2])
    /\ Cardinality(BatchAttempts) = max_retries
    /\ ib_table = {ib_batch[1], ib_batch[3]}
    /\ ib_ret = <<[rows_inserted |-> 2, rows_failed |-> 1]>>

(***************************************************************************)
(* C24: a row that no insert lands is dropped from the store, and the      *)
(* write operation and the run that called it report this: when a run has  *)
(* dropped a record, an append operation has returned something other      *)
(* than True, or the run has raised, or the counts the run returns are     *)
(* short of the rows of the sheet, as they are not when every row landed.  *)
(***************************************************************************)
InStore(row_id) ==
    \E r \in included_table \cup excluded_table : r.row_id = row_id

C24_DropsSurfaced ==
    (run_pc = "complete" /\ dropped # {}) =>
        /\ \A row_id \in dropped : ~InStore(row_id)
        /\ \/ \E w \in write_ret : w.returned # TRUE
           \/ run_error # <<>>
           \/ run_ret[1].total_included + run_ret[1].total_excluded
                    < run_ret[1].total_rows

(***************************************************************************)
(* C25: a later run replaces the included and the excluded table whole:    *)
(* the run empties both tables before it writes a record, and from then on *)
(* and after the run neither table holds a record that an earlier run      *)
(* wrote.                                                                  *)
(***************************************************************************)
\* the row_ids of the rows that this run gave to clean_dataset in a call
\* that returned
RowIdsOfRun ==
    UNION {{calls[k].data[i].row_id : i \in DOMAIN calls[k].data} : k \in DOMAIN calls}

C25_RunReplaces ==
    /\ (run_pc = "batch" /\ batch_num = 0) =>
            included_table = {} /\ excluded_table = {}
    /\ run_pc \in {"batch", "cleaning", "complete"} =>
            \A r \in included_table \cup excluded_table : r.row_id \in RowIdsOfRun

\* the second run has completed and has written to both tables; the first
\* run has written too, as its rows in the original table show
C25_Witness ==
    /\ runs = 2
    /\ run_pc = "complete"
    /\ included_table # {}
    /\ excluded_table # {}
    /\ \E o \in original_table : o.row_id \notin RowIdsOfRun

(***************************************************************************)
(* C26: when the request for the sheet fails in all 3 rounds of            *)
(* get_sheet_data, or the sheet has no data row after the header, the run  *)
(* ends with an exception that tells which of the two happened and         *)
(* returns nothing, and it has created no table, emptied none and written  *)
(* no record: the store is as it was before the run.                       *)
(***************************************************************************)
theStore == <<created, included_table, excluded_table, original_table>>

FetchStep ==
    /\ run_pc' \in {"fetch", "failed"} => UNCHANGED theStore
    /\ attempt' < get_sheet_data_max_retries
    /\ (run_pc = "fetch" /\ attempt = get_sheet_data_max_retries - 1) => run_pc' # "fetch"
    /\ (run_pc = "fetch" /\ run_pc' = "failed") =>
            /\ run_ret' = <<>>
            /\ \/ /\ run_error' = <<"HttpError">>
                  /\ attempt = get_sheet_data_max_retries - 1
               \/ /\ run_error' = <<"ValueError: No data found in sheet">>
                  /\ Len(raw_data') = 0
    /\ (run_pc = "fetch" /\ run_pc' = "batch") => Len(raw_data') >= 1

C26_FetchFailure == [][FetchStep]_vars

\* the second run has failed in the third round of get_sheet_data, and the
\* tables hold what the first run wrote
C26_Witness ==
    /\ runs = 2
    /\ run_pc = "failed"
    /\ run_error = <<"HttpError">>
    /\ attempt = get_sheet_data_max_retries - 1
    /\ created # {}
    /\ included_table # {}
    /\ excluded_table # {}

(***************************************************************************)
(* C27: the analytics are functions of the included records, the excluded  *)
(* records and the original count alone: get_comprehensive_analytics       *)
(* leaves all three as they are, two calls on one engine return equal      *)
(* reports, and a report has exactly the keys dataset_sizes,               *)
(* uniqueness_metrics, duplicate_analysis, birth_year_distribution,        *)
(* birth_month_distribution and exclusion_reasons.                         *)
(***************************************************************************)
ReportKeys ==
    {"dataset_sizes", "uniqueness_metrics", "duplicate_analysis",
     "birth_year_distribution", "birth_month_distribution", "exclusion_reasons"}

EqualReports ==
    fn = "get_comprehensive_analytics" =>
        /\ \A k \in DOMAIN ret : DOMAIN ret[k] = ReportKeys
        /\ \A k \in DOMAIN ret : ret[k] = ret[1]

EngineKept == fn' = "get_comprehensive_analytics" => engine' = engine

C27_AnalyticsPure == []EqualReports /\ [][EngineKept]_vars

\* two reports of one engine with included and excluded records
C27_Witness ==
    /\ fn = "get_comprehensive_analytics"
    /\ Len(ret) = 2
    /\ Len(engine.included_data) = 3
    /\ Len(engine.excluded_data) = 2
    /\ ret[2].dataset_sizes.included_row_count = 3
    /\ Len(ret[2].exclusion_reasons) = 2

(***************************************************************************)
(* C28: for a sheet with one data row or more and a batch size of one or   *)
(* more, the run gives every data row 1..total_rows to the cleaner in      *)
(* exactly one batch, the header in none, no row skipped or given twice    *)
(* where batches meet, each with its index as original_row_number, and it  *)
(* returns total_included + total_excluded = total_rows.                   *)
(***************************************************************************)
\* the rows of the first k calls of clean_dataset that returned
RECURSIVE RowsOfCalls(_)
RowsOfCalls(k) == IF k = 0 THEN <<>> ELSE RowsOfCalls(k - 1) \o calls[k].data

\* the rows the run has given to the cleaner, those of a call that has not
\* returned last
Handed ==
    RowsOfCalls(Len(calls))
        \o (IF run_pc = "cleaning" /\ pc \in {"loop", "raised"} THEN data ELSE <<>>)

HandedInOrder ==
    \A i \in DOMAIN Handed :
        /\ i <= total_rows
        /\ Handed[i].original_row_number = i
        /\ Handed[i].firstname = <<CellAt(raw_data[i], 1)>>
        /\ Handed[i].birthyear = <<CellAt(raw_data[i], 4)>>

\* the run has ended, by its return or by an exception out of a batch
RunEnded ==
    \/ run_pc = "complete"
    \/ run_pc = "cleaning" /\ pc = "raised"

C28_EveryRowOnce ==
    /\ run_pc \in {"batch", "cleaning", "complete"} => HandedInOrder
    /\ RunEnded => Len(Handed) = total_rows
    /\ run_pc = "complete" =>
        /\ run_ret[1].total_included + run_ret[1].total_excluded = run_ret[1].total_rows
        /\ run_ret[1].total_rows = total_rows

(***************************************************************************)
(* Two requests to /api/clean_data for one sheet at the same time: each    *)
(* runs process_and_clean_sheet_data in a thread of its own on the same    *)
(* tables, and the steps of the two are interleaved at the requests to the *)
(* store: the two deletes, and for every batch the two append operations,  *)
(* which run in two threads.  The sheet is fetched with data rows, every   *)
(* insert lands, and clean_dataset is taken in one step.                   *)
(***************************************************************************)
\* clean_dataset on the rows from the k-th: the two lists, or the exception
clean_rows_add(r, rest) ==
    IF r.exc # "" THEN [exc |-> r.exc, included_data |-> <<>>, excluded_data |-> <<>>]
    ELSE IF rest.exc # "" THEN rest
    ELSE IF r.is_valid
         THEN [rest EXCEPT !.included_data = <<included_row(r.cleaned)>> \o @]
         ELSE [rest EXCEPT !.excluded_data = <<excluded_row(r.cleaned, r.errors)>> \o @]

RECURSIVE clean_rows(_, _)
clean_rows(rows, k) ==
    IF k > Len(rows) THEN [exc |-> "", included_data |-> <<>>, excluded_data |-> <<>>]
    ELSE clean_rows_add(clean_row(rows[k]), clean_rows(rows, k + 1))

\* batch_with_ids of the worker's next batch
worker_batch(w) ==
    LET first == w.batch_num * batch_size + 1
        after == IF first + batch_size < total_rows + 1
                 THEN first + batch_size ELSE total_rows + 1
    IN  [i \in 1..(after - first) |->
            parsed_row(raw_data[first + i - 1], uuid4(uuids + i), first + i - 1)]

\* the worker is between two batches: before the first, or the append
\* operations of the last have returned
between_batches(w) ==
    \/ w.pc = "batch"
    \/ w.pc = "insert" /\ w.appended = {"included", "excluded"}

worker_call(i) ==
    /\ workers[i].pc = "idle"
    /\ IF \A w \in DOMAIN workers : workers[w].pc = "idle"
       THEN \E rows \in RawSheets \ {<<>>}, size \in BatchSizes :
                raw_data' = rows /\ batch_size' = size
       ELSE UNCHANGED <<raw_data, batch_size>>
    /\ workers' = [workers EXCEPT ![i].pc = "clear_included"]
    /\ UNCHANGED <<run_pc, runs, store_original, batch_num, original_batch, uuids,
                   included_table, excluded_table, original_table>>
    /\ UNCHANGED <<cleanerVars, callVars, callerVars, engineVars, insertVars, runVars,
                   routeVars>>

worker_clear_included(i) ==
    /\ workers[i].pc = "clear_included"
    /\ included_table' = delete_neq(included_table, "00000000-0000-0000-0000-000000000000")
    /\ workers' = [workers EXCEPT ![i].pc = "clear_excluded"]
    /\ UNCHANGED <<run_pc, runs, raw_data, store_original, batch_size, batch_num,
                   original_batch, uuids, excluded_table, original_table>>
    /\ UNCHANGED <<cleanerVars, callVars, callerVars, engineVars, insertVars, runVars,
                   routeVars>>

worker_clear_excluded(i) ==
    /\ workers[i].pc = "clear_excluded"
    /\ excluded_table' = delete_neq(excluded_table, "00000000-0000-0000-0000-000000000000")
    /\ workers' = [workers EXCEPT ![i].pc = "batch", ![i].batch_num = 0]
    /\ UNCHANGED <<run_pc, runs, raw_data, store_original, batch_size, batch_num,
                   original_batch, uuids, included_table, original_table>>
    /\ UNCHANGED <<cleanerVars, callVars, callerVars, engineVars, insertVars, runVars,
                   routeVars>>

\* the next batch up to the two append operations given to the executor;
\* none is given for an empty list
worker_batch_cleaned(i, cleaned) ==
    /\ between_batches(workers[i])
    /\ workers[i].batch_num < num_batches
    /\ uuids' = uuids + Len(worker_batch(workers[i]))
    /\ workers' =
            [workers EXCEPT
                ![i].pc = IF cleaned.exc # "" THEN "raised" ELSE "insert",
                ![i].batch_num = @ + 1,
                ![i].included_data = cleaned.included_data,
                ![i].excluded_data = cleaned.excluded_data,
                ![i].appended =
                    (IF Len(cleaned.included_data) = 0 THEN {"included"} ELSE {})
                        \cup (IF Len(cleaned.excluded_data) = 0 THEN {"excluded"} ELSE {})]
    /\ UNCHANGED <<run_pc, runs, raw_data, store_original, batch_size, batch_num,
                   original_batch, included_table, excluded_table, original_table>>
    /\ UNCHANGED <<cleanerVars, callVars, callerVars, engineVars, insertVars, runVars,
                   routeVars>>

worker_process_batch(i) ==
    worker_batch_cleaned(i, clean_rows(worker_batch(workers[i]), 1))

worker_append_included(i) ==
    /\ workers[i].pc = "insert"
    /\ "included" \notin workers[i].appended
    /\ included_table' = included_table \cup landing(workers[i].included_data, {})
    /\ workers' = [workers EXCEPT ![i].appended = @ \cup {"included"}]
    /\ UNCHANGED <<run_pc, runs, raw_data, store_original, batch_size, batch_num,
                   original_batch, uuids, excluded_table, original_table>>
    /\ UNCHANGED <<cleanerVars, callVars, callerVars, engineVars, insertVars, runVars,
                   routeVars>>

worker_append_excluded(i) ==
    /\ workers[i].pc = "insert"
    /\ "excluded" \notin workers[i].appended
    /\ excluded_table' = excluded_table \cup landing(workers[i].excluded_data, {})
    /\ workers' = [workers EXCEPT ![i].appended = @ \cup {"excluded"}]
    /\ UNCHANGED <<run_pc, runs, raw_data, store_original, batch_size, batch_num,
                   original_batch, uuids, included_table, original_table>>
    /\ UNCHANGED <<cleanerVars, callVars, callerVars, engineVars, insertVars, runVars,
                   routeVars>>

worker_return(i) ==
    /\ between_batches(workers[i])
    /\ workers[i].batch_num = num_batches
    /\ workers' = [workers EXCEPT ![i].pc = "complete"]
    /\ UNCHANGED <<pipelineVars, cleanerVars, callVars, callerVars, engineVars,
                   insertVars, runVars, routeVars>>

NextWorkers ==
    \E i \in DOMAIN workers :
        \/ worker_call(i)
        \/ worker_clear_included(i)
        \/ worker_clear_excluded(i)
        \/ worker_process_batch(i)
        \/ worker_append_included(i)
        \/ worker_append_excluded(i)
        \/ worker_return(i)

SpecWorkers == Init /\ [][NextWorkers]_vars

(***************************************************************************)
(* C29: when two runs for one sheet go on at the same time, then however   *)
(* their deletes and appends are interleaved the included and the excluded *)
(* table hold the partition of one run when both have finished: no         *)
(* original_row_number is there more than once.                            *)
(***************************************************************************)
C29_OnePartition ==
    (\A w \in DOMAIN workers : workers[w].pc = "complete") =>
        \A r1, r2 \in included_table \cup excluded_table :
            r1.original_row_number = r2.original_row_number => r1 = r2

(***************************************************************************)
(* The route /api/clean_data of src/app.py after the run: the included and *)
(* the excluded table are read back, the engine is built on what was read, *)
(* and the answer holds the totals of the run beside the report.           *)
(***************************************************************************)
\* select("*").order('original_row_number') over all the pages
RECURSIVE select_ordered(_)
select_ordered(table) ==
    IF table = {} THEN <<>>
    ELSE LET first == CHOOSE r \in table :
                        \A o \in table : r.original_row_number <= o.original_row_number
         IN  <<first>> \o select_ordered(table \ {first})

\* get_all_included_data, get_all_excluded_data: the rows of the table, or
\* the empty list when the request for a page raised
get_all_data_or_nothing(table) == {select_ordered(table), <<>>}

\* clean_data after process_and_clean_sheet_data returned: the two tables
\* are read back and the engine is built on what was read
clean_data_analytics ==
    /\ run_pc = "complete"
    /\ \E included \in get_all_data_or_nothing(included_table),
          excluded \in get_all_data_or_nothing(excluded_table) :
            engine' = [included_data |-> included,
                       excluded_data |-> excluded,
                       original_count |-> run_ret[1].total_rows]
    /\ run_pc' = "analytics"
    /\ UNCHANGED <<runs, raw_data, store_original, batch_size, batch_num,
                   original_batch, uuids, included_table, excluded_table,
                   original_table>>
    /\ UNCHANGED <<cleanerVars, callVars, callerVars, storeVars>>

\* the answer of the route: the report beside the three totals of the run,
\* or the error when the run raised
clean_data_return ==
    /\ \/ /\ run_pc = "analytics"
          /\ response' = <<[status |-> 200,
                            success |-> TRUE,
                            original_count |-> run_ret[1].total_rows,
                            included_count |-> run_ret[1].total_included,
                            excluded_count |-> run_ret[1].total_excluded,
                            analytics |-> get_comprehensive_analytics]>>
       \/ /\ \/ run_pc = "failed"
             \/ run_pc = "cleaning" /\ pc = "raised"
          /\ response' = <<[status |-> 500]>>
    /\ run_pc' = "responded"
    /\ UNCHANGED <<runs, raw_data, store_original, batch_size, batch_num,
                   original_batch, uuids, included_table, excluded_table,
                   original_table>>
    /\ UNCHANGED <<cleanerVars, callVars, callerVars, engineVars, insertVars, runVars,
                   workerVars>>

NextPipeline ==
    \/ process_call
    \/ get_sheet_data_raises
    \/ process_start
    \/ process_batch
    \/ clean_dataset_row
    \/ clean_dataset_return
    \/ process_insert
    \/ process_return
    \/ clean_data_analytics
    \/ clean_data_return

SpecPipeline == Init /\ [][NextPipeline]_vars

(***************************************************************************)
(* C30: in every successful answer of clean_data the report agrees with    *)
(* the run, also when writes to the store or reads of a page failed: the   *)
(* included_row_count of dataset_sizes is the included_count of the        *)
(* answer, the excluded_row_count is the excluded_count, and the two row   *)
(* counts add up to the original_row_count.                                *)
(***************************************************************************)
C30_AnswerConsistent ==
    (response # <<>> /\ response[1].status = 200) =>
        LET sizes == response[1].analytics.dataset_sizes
        IN  /\ sizes.included_row_count = response[1].included_count
            /\ sizes.excluded_row_count = response[1].excluded_count
            /\ sizes.included_row_count + sizes.excluded_row_count
                    = sizes.original_row_count

====
